---------------------------- MODULE Spec2Model ----------------------------
(***************************************************************************)
(* A model of sspi-rs (Osirium/sspi-rs): the public SSPI surface of        *)
(* src/sspi.rs (security buffers, error conversions), and the NTLM         *)
(* context state machine with its per-message protection that the Sspi     *)
(* trait and its doctests drive.                                           *)
(*                                                                         *)
(* The module holds several specifications over one set of variables:      *)
(*   SpecBuf  SecurityBuffer::find_buffer and find_buffer_mut applied to   *)
(*            bounded buffer lists                                         *)
(*   SpecErr  the From<...> for Error conversions and                      *)
(*            get_krb_status_from_code applied to bounded inputs           *)
(*   Spec     the NTLM client/server exchange of the Sspi doctests,        *)
(*            followed by protected messages over a replaying network      *)
(*   SpecFair Spec, with the doctest's loop driven to its end              *)
(*   SpecSeq  Spec, with sessions that already carried many messages       *)
(*            among the initial states (sequence counters near 2^32)       *)
(*   SpecNum  the ErrorKind and SecurityStatus discriminants, to_u32 and   *)
(*            from_u32                                                     *)
(*   SpecKdc  KerberosConfig reading SSPI_KDC_URL                          *)
(*   SpecPkg  query_security_package_info and enumerate_security_packages, *)
(*            and a caller writing to the descriptors it was returned      *)
(*   SpecBuilder  the AcceptSecurityContext builder, from                  *)
(*            accept_security_context through its setters and transform    *)
(*            to execute                                                   *)
(*   SpecType SecurityPackageType to and from its name                     *)
(* A specification leaves the variables of the other parts at their idle   *)
(* values.                                                                 *)
(***************************************************************************)
EXTENDS Integers, Sequences, FiniteSets, TLC

(***************************************************************************)
(* Bounds of the model.                                                    *)
(***************************************************************************)
\* longest buffer list handed to find_buffer
MaxBuffers == 3
\* largest KRB-ERROR error-code converted (codes above 255 take two bytes)
MaxKrbCode == 300
\* longest byte slice handed to get_krb_status_from_code
MaxCodeLen == 2
\* the client and the server pick their challenges among 1..NumChallenges
NumChallenges == 1
\* the client picks its random session key among 1..NumSessionKeys
NumSessionKeys == 1
\* iterations after which the doctest's loop is cut
MaxRounds == 3
\* protected messages the two contexts send, together
MaxMsgs == 2
\* longest plaintext protected
MaxPlainLen == 1
\* decrypt calls of one context that end MessageAltered
MaxAltered == 1

\* setter calls and field assignments on one AcceptSecurityContext builder
MaxCalls == 5
\* assignments to the pub fields of one builder, made without a setter
MaxAssignments == 1
\* times one builder is handed on to another package by transform
MaxTransforms == 1
\* PackageInfo values the caller holds at once
MaxHeld == 4

VARIABLES
    \* ---- SecurityBuffer::find_buffer ----
    buffers,        \* the caller's ordered list of SecurityBuffers
    buffer_type,    \* the SecurityBufferType looked for
    found,          \* the call's record: its argument and its Result
    found_mut,      \* the same of a call of find_buffer_mut

    \* ---- From<...> for Error ----
    err_in,         \* the foreign error handed to Error::from
    err_out,        \* the record of the conversion: the resulting Error
    krb_code,       \* a byte slice handed to get_krb_status_from_code
    krb_status,     \* the record of that call

    \* ---- the NTLM exchange of the Sspi doctests, and what follows it ----
    pc,                     \* the doctest's position
    rounds,                 \* iterations of its loop completed
    ctx,                    \* the two Ntlm contexts (client_ntlm, server ntlm)
    client_output_buffer,   \* the client's output buffers, the server's input
    server_output_buffer,   \* the server's output buffers, the client's input
    msgs,                   \* the protected messages handed to the transport
    accepted,               \* per context, the messages it decrypted successfully
    altered,                \* per context, its decrypt calls that failed MessageAltered
    last,                   \* the last Sspi call and what it returned

    \* ---- ErrorKind and SecurityStatus as numbers ----
    num_in,         \* the enum value handed to to_u32
    num_out,        \* the record of the conversion: the u32, and from_u32 of it

    \* ---- KerberosConfig ----
    kdc_url_env,    \* the environment variable SSPI_KDC_URL: unset, or its characters
    kdc_env,        \* the record of a call of get_kdc_env
    config,         \* the record of a call of new_with_network_client

    \* ---- the security packages ----
    package_type,   \* the SecurityPackageType asked about
    package_info,   \* the record of a call of query_security_package_info
    packages,       \* the record of a call of enumerate_security_packages
    package_statics,\* the PackageInfo statics of the packages
    held,           \* the PackageInfo values returned so far, the caller's
    type_in,        \* a string and a SecurityPackageType to convert
    type_out,       \* the record of their conversions

    \* ---- the AcceptSecurityContext builder ----
    builder,        \* the builder value the caller holds
    calls,          \* the methods called on it so far, in order
    args,           \* the argument of each of these calls
    accept_result   \* what execute came to

bufVars == <<buffers, buffer_type, found, found_mut>>
errVars == <<err_in, err_out, krb_code, krb_status>>
ntlmVars == <<pc, rounds, ctx, client_output_buffer, server_output_buffer,
              msgs, accepted, altered, last>>
numVars == <<num_in, num_out>>
vars == <<buffers, buffer_type, found, found_mut, err_in, err_out, krb_code, krb_status,
          pc, rounds, ctx, client_output_buffer, server_output_buffer,
          msgs, accepted, altered, last, num_in, num_out,
          kdc_url_env, kdc_env, config, package_type, package_info, packages,
          package_statics, held, type_in, type_out,
          builder, calls, args, accept_result>>
kdcVars == <<kdc_url_env, kdc_env, config>>
pkgVars == <<package_type, package_info, packages, package_statics, held>>
typeVars == <<type_in, type_out>>
builderVars == <<builder, calls, args, accept_result>>

\* the variables of the other parts
exceptBuf == <<errVars, ntlmVars, numVars, kdcVars, pkgVars, builderVars, typeVars>>
exceptErr == <<bufVars, ntlmVars, numVars, kdcVars, pkgVars, builderVars, typeVars>>
exceptNtlm == <<bufVars, errVars, numVars, kdcVars, pkgVars, builderVars, typeVars>>
exceptNum == <<bufVars, errVars, ntlmVars, kdcVars, pkgVars, builderVars, typeVars>>
exceptKdc == <<bufVars, errVars, ntlmVars, numVars, pkgVars, builderVars, typeVars>>
exceptPkg == <<bufVars, errVars, ntlmVars, numVars, kdcVars, builderVars, typeVars>>
exceptBuilder == <<bufVars, errVars, ntlmVars, numVars, kdcVars, pkgVars, typeVars>>
exceptType == <<bufVars, errVars, ntlmVars, numVars, kdcVars, pkgVars, builderVars>>

(***************************************************************************)
(* sspi::Error and sspi::Result.                                           *)
(***************************************************************************)
ErrorNew(error_type, error) == [error_type |-> error_type, description |-> error]

\* the error slot of an Ok(..)
NoError == ErrorNew("", "")

(***************************************************************************)
(* SecurityBuffer and SecurityBufferType.                                  *)
(***************************************************************************)
SecurityBufferNew(buffer, type) == [buffer |-> buffer, buffer_type |-> type]

\* The SecurityBufferType variants the model builds lists from.
BufferTypes == {"Empty", "Data", "Token", "Padding"}

\* Payloads of the buffers in the lists.
Payloads == {<<>>, <<1>>}

SecurityBuffers == {SecurityBufferNew(b, t) : b \in Payloads, t \in BufferTypes}

BufferLists == UNION {[1..n -> SecurityBuffers] : n \in 0..MaxBuffers}

\* Iterator::find over buffers.iter(): the position of the first element
\* from position i on that satisfies |b| b.buffer_type == type; 0 for None.
RECURSIVE IterFind(_, _, _)
IterFind(bufs, type, i) ==
    IF i > Len(bufs) THEN 0
    ELSE IF bufs[i].buffer_type = type THEN i
    ELSE IterFind(bufs, type, i + 1)

\* A bug find_buffer could have: the last match instead of the first.
RECURSIVE IterRFind(_, _, _)
IterRFind(bufs, type, i) ==
    IF i < 1 THEN 0
    ELSE IF bufs[i].buffer_type = type THEN i
    ELSE IterRFind(bufs, type, i - 1)

find_buffer_last(bufs, type) ==
    LET i == IterRFind(bufs, type, Len(bufs)) IN
    IF i # 0
    THEN [ok |-> TRUE, ref |-> i, err |-> NoError]
    ELSE [ok |-> FALSE, ref |-> 0,
          err |-> ErrorNew("InvalidToken", "No buffer was provided with type " \o type)]

\* SecurityBuffer::find_buffer.  Ok(&buffers[ref]) is the position ref of the
\* borrowed element; Err carries the Error.
find_buffer(bufs, type) ==
    LET i == IterFind(bufs, type, 1) IN
    IF i # 0
    THEN [ok |-> TRUE, ref |-> i, err |-> NoError]
    ELSE [ok |-> FALSE, ref |-> 0,
          err |-> ErrorNew("InvalidToken", "No buffer was provided with type " \o type)]

\* A bug find_buffer_mut could have: the last match instead of the first.
find_buffer_mut_last(bufs, type) == find_buffer_last(bufs, type)

\* SecurityBuffer::find_buffer_mut.  Ok(&mut buffers[ref]) is the position
\* ref of the borrowed element; Err carries the Error.
find_buffer_mut(bufs, type) ==
    LET i == IterFind(bufs, type, 1) IN
    IF i # 0
    THEN [ok |-> TRUE, ref |-> i, err |-> NoError]
    ELSE [ok |-> FALSE, ref |-> 0,
          err |-> ErrorNew("InvalidToken", "No buffer was provided with type " \o type)]

\* no find_buffer call made yet
NotCalled == [called |-> FALSE, arg |-> <<>>, result |-> [ok |-> FALSE, ref |-> 0, err |-> NoError]]

IdleBuf ==
    /\ buffers = <<>>
    /\ buffer_type = "Empty"
    /\ found = NotCalled
    /\ found_mut = NotCalled

InitBuf ==
    /\ buffers \in BufferLists
    /\ buffer_type \in BufferTypes
    /\ found = NotCalled
    /\ found_mut = NotCalled

\* One call SecurityBuffer::find_buffer(&buffers, buffer_type); the slice is
\* borrowed immutably.
FindBuffer ==
    /\ ~found.called
    /\ found' = [called |-> TRUE, arg |-> buffers, result |-> find_buffer(buffers, buffer_type)]
    /\ UNCHANGED <<buffers, buffer_type, found_mut, exceptBuf>>

\* One call SecurityBuffer::find_buffer_mut(&mut buffers, buffer_type); the
\* call itself writes to no buffer.
FindBufferMut ==
    /\ ~found_mut.called
    /\ found_mut' = [called |-> TRUE, arg |-> buffers,
                     result |-> find_buffer_mut(buffers, buffer_type)]
    /\ UNCHANGED <<buffers, buffer_type, found, exceptBuf>>

(***************************************************************************)
(* Error conversions: impl From<KrbError>, From<kerberos_crypto::Error>    *)
(* for sspi::Error.                                                        *)
(***************************************************************************)

\* fmt::Display of an unsigned number: its decimal digits.
Digit(d) ==
    CASE d = 0 -> "0" [] d = 1 -> "1" [] d = 2 -> "2" [] d = 3 -> "3" [] d = 4 -> "4"
      [] d = 5 -> "5" [] d = 6 -> "6" [] d = 7 -> "7" [] d = 8 -> "8" [] d = 9 -> "9"

RECURSIVE Display(_)
Display(n) == IF n < 10 THEN Digit(n) ELSE Display(n \div 10) \o Digit(n % 10)

\* The big-endian bytes of n, without leading zero bytes (one zero byte for 0).
RECURSIVE BytesBe(_)
BytesBe(n) == IF n < 256 THEN <<n>> ELSE Append(BytesBe(n \div 256), n % 256)

\* The DER content bytes of the non-negative INTEGER n, as the decoded
\* KRB-ERROR holds its error-code: two's complement, so a zero byte leads
\* when the top bit of the first byte is set.
DerInteger(n) == IF BytesBe(n)[1] >= 128 THEN <<0>> \o BytesBe(n) ELSE BytesBe(n)

\* IntegerAsn1::as_unsigned_bytes_be: the bytes without the sign's leading
\* zero.  The bytes are the content of a decoded DER INTEGER, at least one
\* byte (DerInteger); bytes of length 0 or 1 are given back as they are.
as_unsigned_bytes_be(bytes) ==
    IF Len(bytes) > 1 /\ bytes[1] = 0 THEN Tail(bytes) ELSE bytes

\* The arms [code] => label of get_krb_status_from_code, in their order.
KrbStatusArms ==
    <<
       <<0, "KDC_ERR_NONE">>,
       <<1, "KDC_ERR_NAME_EXP">>,
       <<2, "KDC_ERR_SERVICE_EXP">>,
       <<3, "KDC_ERR_BAD_PVNO">>,
       <<4, "KDC_ERR_C_OLD_MAST_KVNO">>,
       <<5, "KDC_ERR_S_OLD_MAST_KVNO">>,
       <<6, "Unrecognised Username - KDC_ERR_C_PRINCIPAL_UNKNOWN">>,
       <<7, "Unrecognised Server - KDC_ERR_S_PRINCIPAL_UNKNOWN">>,
       <<8, "KDC_ERR_PRINCIPAL_NOT_UNIQUE">>,
       <<9, "KDC_ERR_NULL_KEY">>,
       <<10, "KDC_ERR_CANNOT_POSTDATE">>,
       <<11, "KDC_ERR_NEVER_VALID">>,
       <<12, "KDC_ERR_POLICY">>,
       <<13, "KDC_ERR_BADOPTION">>,
       <<14, "KDC_ERR_ETYPE_NOTSUPP">>,
       <<15, "KDC_ERR_SUMTYPE_NOSUPP">>,
       <<16, "KDC_ERR_PADATA_TYPE_NOSUPP">>,
       <<17, "KDC_ERR_TRTYPE_NO_SUPP">>,
       <<18, "KDC_ERR_CLIENT_REVOKED">>,
       <<19, "KDC_ERR_SERVICE_REVOKED">>,
       <<20, "KDC_ERR_TGT_REVOKED">>,
       <<21, "KDC_ERR_CLIENT_NOTYET">>,
       <<22, "KDC_ERR_SERVICE_NOTYET">>,
       <<23, "Credentials Expired - KDC_ERR_KEY_EXPIRED">>,
       <<24, "Incorrect Credentials - KDC_ERR_PREAUTH_FAILED">>,
       <<25, "KDC_ERR_PREAUTH_REQUIRED">>,
       <<26, "KDC_ERR_SERVER_NOMATCH">>,
       <<27, "KDC_ERR_SVC_UNAVAILABLE">>,
       <<31, "KRB_AP_ERR_BAD_INTEGRITY">>,
       <<32, "KRB_AP_ERR_TKT_EXPIRED">>,
       <<33, "KRB_AP_ERR_TKT_NYV">>,
       <<34, "KRB_AP_ERR_REPEAT">>,
       <<35, "KRB_AP_ERR_NOT_US">>,
       <<36, "KRB_AP_ERR_BADMATCH">>,
       <<37, "KRB_AP_ERR_SKEW">>,
       <<38, "KRB_AP_ERR_BADADDR">>,
       <<39, "KRB_AP_ERR_BADVERSION">>,
       <<40, "KRB_AP_ERR_MSG_TYPE">>,
       <<41, "KRB_AP_ERR_MODIFIED">>,
       <<42, "KRB_AP_ERR_BADORDER">>,
       <<44, "KRB_AP_ERR_BADKEYVER">>,
       <<45, "KRB_AP_ERR_NOKEY">>,
       <<46, "KRB_AP_ERR_MUT_FAIL">>,
       <<47, "KRB_AP_ERR_BADDIRECTION">>,
       <<48, "KRB_AP_ERR_METHOD">>,
       <<49, "KRB_AP_ERR_BADSEQ">>,
       <<50, "KRB_AP_ERR_INAPP_CKSUM">>,
       <<51, "KRB_AP_PATH_NOT_ACCEPTED">>,
       <<52, "KRB_ERR_RESPONSE_TOO_BIG">>,
       <<60, "KRB_ERR_GENERIC">>,
       <<61, "KRB_ERR_FIELD_TOOLONG">>,
       <<62, "KDC_ERR_CLIENT_NOT_TRUSTED">>,
       <<63, "KDC_ERR_KDC_NOT_TRUSTED">>,
       <<64, "KDC_ERR_INVALID_SIG">>,
       <<65, "KDC_ERR_KEY_TOO_WEAK">>,
       <<66, "KRB_AP_ERR_USER_TO_USER_REQUIRED">>,
       <<67, "KRB_AP_ERR_NO_TGT">>,
       <<68, "Unrecognised Domain - KDC_ERR_WRONG_REALM">>
    >>

\* The arms tried in order from arm k on; the last arm, _, gives MISSING_ERROR.
RECURSIVE MatchArm(_, _)
MatchArm(error_code, k) ==
    IF k > Len(KrbStatusArms) THEN "MISSING_ERROR"
    ELSE IF error_code = <<KrbStatusArms[k][1]>> THEN KrbStatusArms[k][2]
    ELSE MatchArm(error_code, k + 1)

\* A bug get_krb_status_from_code could have: arms [.., code] that look only
\* at the last byte of the slice.
RECURSIVE MatchArmLastByte(_, _)
MatchArmLastByte(error_code, k) ==
    IF k > Len(KrbStatusArms) \/ error_code = <<>> THEN "MISSING_ERROR"
    ELSE IF error_code[Len(error_code)] = KrbStatusArms[k][1] THEN KrbStatusArms[k][2]
    ELSE MatchArmLastByte(error_code, k + 1)

get_krb_status_from_code_last_byte(error_code) == MatchArmLastByte(error_code, 1)

\* get_krb_status_from_code(error_code: &[u8]) -> &'static str
get_krb_status_from_code(error_code) == MatchArm(error_code, 1)

\* The foreign errors converted.  One record shape holds them all: type is the
\* Rust type or variant, code its number (the KRB-ERROR error-code, the
\* algorithm, the key length), text its string (the KRB-ERROR's to_string(),
\* the DecryptionError's description).
KrbErrors == {[type |-> "KrbError", code |-> c, text |-> "KRB-ERROR"] : c \in 0..MaxKrbCode}

CryptoErrors ==
    {[type |-> "DecryptionError", code |-> 0, text |-> t] : t \in {"", "checksum mismatch"}}
    \cup {[type |-> "UnsupportedAlgorithm", code |-> a, text |-> ""] : a \in {1, 17, 18, 23}}
    \cup {[type |-> "InvalidKeyCharset", code |-> 0, text |-> ""]}
    \cup {[type |-> "InvalidKeyLength", code |-> l, text |-> ""] : l \in {0, 15}}

\* impl From<KrbError> for Error
FromKrbError(err) ==
    LET error_code == as_unsigned_bytes_be(DerInteger(err.code))
        error == get_krb_status_from_code(error_code)
    IN  ErrorNew("InternalError",
                 "Got the krb error: " \o error \o " (" \o err.text \o ")")

\* impl From<kerberos_crypto::Error> for Error
FromCryptoError(err) ==
    CASE err.type = "DecryptionError" ->
            [error_type |-> "DecryptFailure", description |-> err.text]
      [] err.type = "UnsupportedAlgorithm" ->
            [error_type |-> "InternalError",
             description |-> "unsupported algorithm: " \o Display(err.code)]
      [] err.type = "InvalidKeyCharset" ->
            [error_type |-> "InternalError", description |-> "invalid key charset"]
      [] err.type = "InvalidKeyLength" ->
            [error_type |-> "InternalError",
             description |-> "invalid key len: " \o Display(err.code)]

\* The other foreign errors.  text is what the error prints: its Debug form
\* ({:?}) for an Asn1DerError, an io::Error, a rand::Error, a Utf8Error and a
\* FromUtf16Error, its Display form (to_string()) for a CharSetError and a
\* GssApiMessageError; a GssApiMessageError::IoError carries the io::Error
\* it wraps, inner being that error's Debug form.
Asn1DerErrors ==
    {[type |-> "Asn1DerError", code |-> 0, text |-> t] : t \in {"TruncatedData", "InvalidData"}}

IoErrorTexts == {"Kind(TimedOut)", "Kind(UnexpectedEof)", "Os { code: 111, kind: ConnectionRefused, message: \"Connection refused\" }"}

IoErrors == {[type |-> "IoError", code |-> 0, text |-> t] : t \in IoErrorTexts}

GssApiMessageErrors ==
    {[type |-> "GssApiMessageError::IoError", code |-> 0, text |-> t] : t \in IoErrorTexts}
    \cup {[type |-> v, code |-> 0, text |-> t] :
             v \in {"GssApiMessageError::InvalidId", "GssApiMessageError::InvalidMicFiller",
                    "GssApiMessageError::InvalidWrapFiller", "GssApiMessageError::Asn1Error"},
             t \in {"invalid", ""}}

OtherErrors ==
    {[type |-> v, code |-> 0, text |-> t] :
        v \in {"CharSetError", "RandError", "Utf8Error", "FromUtf16Error"}, t \in {"failed"}}

\* impl From<Asn1DerError> for Error
FromAsn1DerError(err) == ErrorNew("InvalidToken", "ASN1 DER error: " \o err.text)

\* A bug the conversion could have: an I/O failure reported as a bad token.
FromIoErrorInvalidToken(err) == ErrorNew("InvalidToken", "IO error: " \o err.text)

\* impl From<io::Error> for Error
FromIoError(err) == ErrorNew("InternalError", "IO error: " \o err.text)

\* A bug the conversion could have: every variant through the io::Error arm.
FromGssApiMessageErrorAllIo(err) == FromIoError(err)

\* impl From<GssApiMessageError> for Error
FromGssApiMessageError(err) ==
    CASE err.type = "GssApiMessageError::IoError" ->
            FromIoError([type |-> "IoError", code |-> 0, text |-> err.text])
      [] err.type = "GssApiMessageError::InvalidId" ->
            [error_type |-> "InvalidToken", description |-> err.text]
      [] err.type = "GssApiMessageError::InvalidMicFiller" ->
            [error_type |-> "InvalidToken", description |-> err.text]
      [] err.type = "GssApiMessageError::InvalidWrapFiller" ->
            [error_type |-> "InvalidToken", description |-> err.text]
      [] err.type = "GssApiMessageError::Asn1Error" ->
            [error_type |-> "InvalidToken", description |-> err.text]

\* impl From<CharSetError>, From<rand::Error>, From<Utf8Error> and
\* From<FromUtf16Error> for Error
FromOtherError(err) ==
    CASE err.type = "CharSetError" -> [error_type |-> "InternalError", description |-> err.text]
      [] err.type = "RandError" -> ErrorNew("InternalError", "Rand error: " \o err.text)
      [] err.type = "Utf8Error" -> ErrorNew("InternalError", "UTF-8 error: " \o err.text)
      [] err.type = "FromUtf16Error" -> ErrorNew("InternalError", "UTF-16 error: " \o err.text)

\* Error::from(err), by the type of err.
ErrorFrom(err) ==
    CASE err.type = "KrbError" -> FromKrbError(err)
      [] err.type \in {"DecryptionError", "UnsupportedAlgorithm",
                       "InvalidKeyCharset", "InvalidKeyLength"} -> FromCryptoError(err)
      [] err.type = "Asn1DerError" -> FromAsn1DerError(err)
      [] err.type = "IoError" -> FromIoError(err)
      [] err.type \in {e.type : e \in GssApiMessageErrors} -> FromGssApiMessageError(err)
      [] err.type \in {e.type : e \in OtherErrors} -> FromOtherError(err)

NotConverted == [done |-> FALSE, error |-> NoError]

\* no foreign error to convert
NoForeignError == [type |-> "none", code |-> 0, text |-> ""]

\* The byte slices handed to get_krb_status_from_code: any last byte, after
\* a few first bytes.
LeadBytes == {0, 1, 255}

CodeSlices ==
    {<<>>} \cup UNION {{lead \o <<byte>> : lead \in [1..(n - 1) -> LeadBytes], byte \in 0..255} :
                       n \in 1..MaxCodeLen}

StatusNotAsked == [done |-> FALSE, label |-> ""]

IdleErr ==
    /\ err_in = NoForeignError
    /\ err_out = NotConverted
    /\ krb_code = <<>>
    /\ krb_status = StatusNotAsked

InitErr ==
    /\ err_in \in {NoForeignError} \cup KrbErrors \cup CryptoErrors \cup Asn1DerErrors
                 \cup IoErrors \cup GssApiMessageErrors \cup OtherErrors
    /\ err_out = NotConverted
    /\ krb_code \in CodeSlices
    /\ err_in = NoForeignError \/ krb_code = <<>>
    /\ krb_status = StatusNotAsked

\* One conversion Error::from(err_in) (the ? operator's, at the boundary).
Convert ==
    /\ err_in # NoForeignError
    /\ ~err_out.done
    /\ err_out' = [done |-> TRUE, error |-> ErrorFrom(err_in)]
    /\ UNCHANGED <<err_in, krb_code, krb_status, exceptErr>>

\* One call get_krb_status_from_code(&krb_code).
GetKrbStatusFromCode ==
    /\ ~krb_status.done
    /\ krb_status' = [done |-> TRUE, label |-> get_krb_status_from_code(krb_code)]
    /\ UNCHANGED <<err_in, err_out, krb_code, exceptErr>>

(***************************************************************************)
(* NTLM.  The Sspi trait of src/sspi.rs declares the operations and its     *)
(* doctests drive them; the Ntlm package behind them is modelled from the   *)
(* specification (sections 3, 4.1, 4.2, 4.5, 5, 8).  Cryptography is        *)
(* symbolic: a key, a digest or a ciphertext is the term that names how it  *)
(* was made, and decrypting gives the plaintext back only under the same    *)
(* key at the same position of the RC4 key stream.                          *)
(***************************************************************************)
Roles == {"client", "server"}

Peer(r) == IF r = "client" THEN "server" ELSE "client"

\* ---- u32: two 16-bit limbs <<high, low>> ----
Limb == 2^16

Zero32 == <<0, 0>>

\* A bug the counters could have: saturating at u32::MAX instead of wrapping.
saturating_add1(n) ==
    IF n[2] + 1 < Limb THEN <<n[1], n[2] + 1>>
    ELSE IF n[1] + 1 < Limb THEN <<n[1] + 1, 0>>
    ELSE n

\* n + 1 modulo 2^32
wrapping_add1(n) ==
    IF n[2] + 1 < Limb THEN <<n[1], n[2] + 1>>
    ELSE IF n[1] + 1 < Limb THEN <<n[1] + 1, 0>>
    ELSE Zero32

\* ---- keys ----
NoKey == [secret |-> 0, magic |-> ""]

\* MD5(ExportedSessionKey || magic)
DeriveKey(exported_session_key, magic) == [secret |-> exported_session_key, magic |-> magic]

ClientSigningMagic == "session key to client-to-server signing key magic constant"
ServerSigningMagic == "session key to server-to-client signing key magic constant"
ClientSealingMagic == "session key to client-to-server sealing key magic constant"
ServerSealingMagic == "session key to server-to-client sealing key magic constant"

\* NTLMv2Hash of an identity (identities are numbered; 0 is none)
NTLMv2Hash(identity) == [identity |-> identity]

\* NTProof = HMAC_MD5(NTLMv2Hash, serverChallenge || Blob); the blob carries
\* the client challenge
NTProof(hash, server_challenge, client_challenge) ==
    [hash |-> hash, server_challenge |-> server_challenge,
     client_challenge |-> client_challenge]

NoProof == NTProof(NTLMv2Hash(0), 0, 0)

\* SessionBaseKey = HMAC_MD5(NTLMv2Hash, NTProof); KeyExchangeKey = SessionBaseKey
KeyExchangeKey(hash, nt_proof) == [hash |-> hash, nt_proof |-> nt_proof]

\* EncryptedRandomSessionKey = RC4(KeyExchangeKey, ExportedSessionKey)
Rc4KeyEncrypt(key_exchange_key, exported_session_key) ==
    [key |-> key_exchange_key, plain |-> exported_session_key]

\* RC4 under another key gives another 16 bytes: 0, no key a client picks
Rc4KeyDecrypt(key_exchange_key, encrypted) ==
    IF encrypted.key = key_exchange_key THEN encrypted.plain ELSE 0

\* ---- the three messages ----
EmptyToken ==
    [message_type |-> 0, server_challenge |-> 0, client_challenge |-> 0,
     nt_proof |-> NoProof,
     encrypted_random_session_key |-> Rc4KeyEncrypt(KeyExchangeKey(NTLMv2Hash(0), NoProof), 0)]

NegotiateMessage == [EmptyToken EXCEPT !.message_type = 1]

\* A bug the server could have: a CHALLENGE_MESSAGE without its challenge.
ChallengeMessageNoChallenge(server_challenge) == [EmptyToken EXCEPT !.message_type = 2]

ChallengeMessage(server_challenge) ==
    [EmptyToken EXCEPT !.message_type = 2, !.server_challenge = server_challenge]

AuthenticateMessage(nt_proof, client_challenge, encrypted_key) ==
    [EmptyToken EXCEPT !.message_type = 3, !.client_challenge = client_challenge,
                       !.nt_proof = nt_proof,
                       !.encrypted_random_session_key = encrypted_key]

\* ---- the context ----
NtlmNew(identity) ==
    [state |-> "Initial", identity |-> identity, server_challenge |-> 0,
     exported_session_key |-> 0,
     send_signing_key |-> NoKey, recv_signing_key |-> NoKey,
     send_sealing_key |-> NoKey, recv_sealing_key |-> NoKey,
     send_pos |-> 0, recv_pos |-> 0,
     send_seq |-> Zero32, recv_seq |-> Zero32]

\* The keys installed once the exported session key is known: each side sends
\* under its own direction's keys and receives under the other's.
InstallKeys(c, key, as_client) ==
    [c EXCEPT
       !.state = "Final",
       !.exported_session_key = key,
       !.send_signing_key = DeriveKey(key, IF as_client THEN ClientSigningMagic ELSE ServerSigningMagic),
       !.recv_signing_key = DeriveKey(key, IF as_client THEN ServerSigningMagic ELSE ClientSigningMagic),
       !.send_sealing_key = DeriveKey(key, IF as_client THEN ClientSealingMagic ELSE ServerSealingMagic),
       !.recv_sealing_key = DeriveKey(key, IF as_client THEN ServerSealingMagic ELSE ClientSealingMagic),
       !.send_pos = 0, !.recv_pos = 0,
       !.send_seq = Zero32, !.recv_seq = Zero32]

\* What a call returns: Ok(status) with the context and the output token it
\* leaves, or Err(err) with the context as it was.
CallOk(status, c, token) == [ok |-> TRUE, status |-> status, err |-> NoError, ctx |-> c, token |-> token]

CallErr(error_type, description, c) ==
    [ok |-> FALSE, status |-> "", err |-> ErrorNew(error_type, description), ctx |-> c, token |-> EmptyToken]

\* A bug the handshake could have: a context out of its state answering the
\* call by starting the handshake over.
WrongStateRestart(c) ==
    CallOk("ContinueNeeded", [NtlmNew(c.identity) EXCEPT !.state = "Negotiate"], NegotiateMessage)

\* the current state does not correspond to the call
WrongState(c) == CallErr("OutOfSequence", "got wrong NTLM state: " \o c.state, c)

\* initialize_security_context on context c with the input buffers; the
\* client challenge and the session key are the random bytes it draws.
initialize_security_context_impl(c, input, client_challenge, key) ==
    CASE c.state = "Initial" ->
            CallOk("ContinueNeeded", [c EXCEPT !.state = "Negotiate"], NegotiateMessage)
      [] c.state = "Negotiate" ->
            LET tok == find_buffer(input, "Token") IN
            IF ~tok.ok THEN [CallErr("", "", c) EXCEPT !.err = tok.err]
            ELSE LET challenge == input[tok.ref].buffer IN
            IF challenge.message_type # 2
            THEN CallErr("InvalidToken", "not a CHALLENGE_MESSAGE", c)
            ELSE LET hash == NTLMv2Hash(c.identity)
                     nt_proof == NTProof(hash, challenge.server_challenge, client_challenge)
                     kek == KeyExchangeKey(hash, nt_proof)
                 IN  CallOk("Ok",
                            InstallKeys([c EXCEPT !.server_challenge = challenge.server_challenge],
                                        key, TRUE),
                            AuthenticateMessage(nt_proof, client_challenge, Rc4KeyEncrypt(kek, key)))
      [] OTHER -> WrongState(c)

\* accept_security_context on context c with the input buffers; the server
\* challenge is the random bytes it draws.
accept_security_context_impl(c, input, server_challenge) ==
    CASE c.state = "Initial" ->
            LET tok == find_buffer(input, "Token") IN
            IF ~tok.ok THEN [CallErr("", "", c) EXCEPT !.err = tok.err]
            ELSE IF input[tok.ref].buffer.message_type # 1
            THEN CallErr("InvalidToken", "not a NEGOTIATE_MESSAGE", c)
            ELSE CallOk("ContinueNeeded",
                        [c EXCEPT !.state = "Challenge", !.server_challenge = server_challenge],
                        ChallengeMessage(server_challenge))
      [] c.state = "Challenge" ->
            LET tok == find_buffer(input, "Token") IN
            IF ~tok.ok THEN [CallErr("", "", c) EXCEPT !.err = tok.err]
            ELSE LET authenticate == input[tok.ref].buffer IN
            IF authenticate.message_type # 3
            THEN CallErr("InvalidToken", "not an AUTHENTICATE_MESSAGE", c)
            ELSE LET hash == NTLMv2Hash(c.identity)
                     nt_proof == NTProof(hash, c.server_challenge, authenticate.client_challenge)
                     kek == KeyExchangeKey(hash, nt_proof)
                 IN  IF authenticate.nt_proof # nt_proof
                     THEN CallErr("MessageAltered", "NTProof mismatch", c)
                     ELSE CallOk("CompleteNeeded",
                                 InstallKeys(c, Rc4KeyDecrypt(kek, authenticate.encrypted_random_session_key),
                                             FALSE),
                                 EmptyToken)
      [] OTHER -> WrongState(c)

(***************************************************************************)
(* NTLM per-message protection (SEAL / UNSEAL with sequence numbering).     *)
(***************************************************************************)
\* bytes of the HMAC-MD5 checksum kept in a signature
SignatureChecksumLen == 8

\* version of a signature: 0x01 0x00 0x00 0x00
SignatureVersion == 1

\* a byte RC4 garbled: read under another key or at another stream position
Garbled == -1

\* One byte (or the checksum, as one block) under the key stream of key at
\* position pos.
Rc4Encrypt(key, pos, plain) == [key |-> key, pos |-> pos, plain |-> plain]

\* A bug the receive stream could have: restarted for every message.
Rc4DecryptByteRestarted(key, pos, cipher) ==
    IF cipher.key = key /\ cipher.pos = 0 THEN cipher.plain ELSE Garbled

\* the byte the stream of key at pos gives back
Rc4DecryptByte(key, pos, cipher) ==
    IF cipher.key = key /\ cipher.pos = pos THEN cipher.plain ELSE Garbled

\* HMAC_MD5(signingKey, seq_le32 || msg) truncated to 8 bytes
Digest(signing_key, seq, message) == [key |-> signing_key, seq |-> seq, message |-> message]

\* version || rc4(checksum[0..8]) || seq_le32
Signature(sealing_key, pos, digest, seq) ==
    [version |-> SignatureVersion, checksum |-> Rc4Encrypt(sealing_key, pos, digest), seq |-> seq]

\* the empty Token buffer a caller hands to encrypt_message
NoSignature == [version |-> 0, checksum |-> Rc4Encrypt(NoKey, 0, Digest(NoKey, Zero32, <<>>)), seq |-> Zero32]

\* What encrypt_message and decrypt_message return: the context, the Token
\* buffer (the signature) and the Data buffer as the call leaves them.
MessageOk(c, signature, data) ==
    [ok |-> TRUE, status |-> "Ok", err |-> NoError, ctx |-> c, token |-> signature, data |-> data]

MessageErr(err, c) ==
    [ok |-> FALSE, status |-> "", err |-> err, ctx |-> c, token |-> NoSignature, data |-> <<>>]

\* SEAL the Data buffer of message under the send stream of c, SIGN the
\* plaintext into the Token buffer, number it with send_seq.
seal(c, message) ==
    LET data == find_buffer(message, "Data")
        token == find_buffer(message, "Token")
    IN  IF ~data.ok THEN MessageErr(data.err, c)
        ELSE IF ~token.ok THEN MessageErr(token.err, c)
        ELSE LET plain == message[data.ref].buffer
                 sealed == [i \in 1..Len(plain) |->
                               Rc4Encrypt(c.send_sealing_key, c.send_pos + i - 1, plain[i])]
                 digest == Digest(c.send_signing_key, c.send_seq, plain)
             IN  MessageOk([c EXCEPT !.send_pos = @ + Len(plain) + SignatureChecksumLen,
                                     !.send_seq = wrapping_add1(@)],
                           Signature(c.send_sealing_key, c.send_pos + Len(plain), digest, c.send_seq),
                           sealed)

\* A bug encrypt_message could have: no check of the context state.
encrypt_message_any_state(c, message, sequence_number) == seal(c, message)

\* encrypt_message(flags, message, sequence_number) on context c: SEAL the
\* Data buffer in place under the send stream, SIGN the plaintext into the
\* Token buffer, number it with send_seq.  The context's own counter numbers
\* the message; the caller's sequence_number plays no part.
encrypt_message(c, message, sequence_number) ==
    IF c.state # "Final"
    THEN MessageErr(ErrorNew("OutOfSequence", "got wrong NTLM state: " \o c.state), c)
    ELSE seal(c, message)

\* UNSEAL in the order of section 4.2: the Data buffer is read from the
\* receive stream, the signature is recomputed on what came out, under the
\* number the message carries, and compared: a mismatch is MessageAltered.
\* Then the number is compared with recv_seq: a mismatch is OutOfSequence.
\* The receive stream has been read either way.
unseal(c, signature, sealed) ==
    LET plain == [i \in 1..Len(sealed) |->
                     Rc4DecryptByte(c.recv_sealing_key, c.recv_pos + i - 1, sealed[i])]
        digest == Digest(c.recv_signing_key, signature.seq, plain)
        expected == Signature(c.recv_sealing_key, c.recv_pos + Len(sealed), digest, signature.seq)
        read == [c EXCEPT !.recv_pos = @ + Len(sealed) + SignatureChecksumLen]
    IN  IF signature # expected
        THEN MessageErr(ErrorNew("MessageAltered", "signature verification failed"), read)
        ELSE IF signature.seq # c.recv_seq
        THEN MessageErr(ErrorNew("OutOfSequence", "unexpected sequence number"), read)
        ELSE MessageOk([read EXCEPT !.recv_seq = wrapping_add1(@)], signature, plain)

\* decrypt_message(message, sequence_number) on context c: the state, the
\* two buffers, then UNSEAL.  The caller's sequence_number plays no part.
decrypt_message(c, message, sequence_number) ==
    IF c.state # "Final"
    THEN MessageErr(ErrorNew("OutOfSequence", "got wrong NTLM state: " \o c.state), c)
    ELSE LET data == find_buffer(message, "Data")
             token == find_buffer(message, "Token")
         IN  IF ~data.ok THEN MessageErr(data.err, c)
             ELSE IF ~token.ok THEN MessageErr(token.err, c)
             ELSE unseal(c, message[token.ref].buffer, message[data.ref].buffer)

(***************************************************************************)
(* The doctest of the Sspi trait (src/sspi.rs, lines 309-374, 394-467,      *)
(* 502-583): two fresh Ntlm contexts, the loop that alternates              *)
(* initialize_security_context and accept_security_context, then            *)
(* complete_auth_token, then protected messages.  Past the doctest, the     *)
(* transport may hand every message it carried to either context, at any    *)
(* time and again, and a forged one.                                        *)
(***************************************************************************)
\* The identities (the credentials handles): the client's is 1; the server
\* holds the same, or another password for the user.
Identities == {1, 2}

Plaintexts == UNION {[1..n -> {0, 1}] : n \in 0..MaxPlainLen}

\* sequence_number arguments of the callers
SequenceNumbers == {0, 1}

TokenBuffer(token) == <<SecurityBufferNew(token, "Token")>>

\* a message nobody sealed
ForgedMessage == [from |-> "nobody", signature |-> [NoSignature EXCEPT !.version = SignatureVersion],
                  data |-> <<>>, plain |-> <<>>]

\* The record of a call: the operation, the context, what it returned and,
\* for decrypt_message, the sender and the number of the message presented.
Returned(op, who, res, data) ==
    [op |-> op, who |-> who, ok |-> res.ok, status |-> res.status,
     error_type |-> res.err.error_type, data |-> data, from |-> "", seq |-> Zero32]

NoCall == [op |-> "", who |-> "", ok |-> FALSE, status |-> "", error_type |-> "", data |-> <<>>,
           from |-> "", seq |-> Zero32]

IdleNtlm ==
    /\ pc = "idle"
    /\ rounds = 0
    /\ ctx = [r \in Roles |-> NtlmNew(0)]
    /\ client_output_buffer = <<>>
    /\ server_output_buffer = <<>>
    /\ msgs = {}
    /\ accepted = [r \in Roles |-> {}]
    /\ altered = [r \in Roles |-> 0]
    /\ last = NoCall

\* Ntlm::new() twice, the credentials handles acquired, the two output
\* buffer lists holding one empty Token buffer each.
InitNtlm ==
    /\ pc = "client_call"
    /\ rounds = 0
    /\ \E identity \in Identities :
          ctx = [r \in Roles |-> IF r = "client" THEN NtlmNew(1) ELSE NtlmNew(identity)]
    /\ client_output_buffer = TokenBuffer(EmptyToken)
    /\ server_output_buffer = TokenBuffer(EmptyToken)
    /\ msgs = {}
    /\ accepted = [r \in Roles |-> {}]
    /\ altered = [r \in Roles |-> 0]
    /\ last = NoCall

\* The loop's first half: client_output_buffer[0].buffer.clear(), then
\* initialize_security_context with the server's output as input, unwrapped.
ClientCall ==
    /\ pc = "client_call"
    /\ rounds < MaxRounds
    /\ \E client_challenge \in 1..NumChallenges, key \in 1..NumSessionKeys :
          LET res == initialize_security_context_impl(ctx["client"], server_output_buffer,
                                                      client_challenge, key)
          IN  /\ ctx' = [ctx EXCEPT !["client"] = res.ctx]
              /\ client_output_buffer' = TokenBuffer(res.token)
              /\ pc' = IF res.ok THEN "server_call" ELSE "panicked"
              /\ last' = Returned("initialize_security_context", "client", res, <<>>)
    /\ UNCHANGED <<exceptNtlm, rounds, server_output_buffer, msgs, accepted, altered>>

\* The loop's second half: accept_security_context with the client's output
\* as input, unwrapped; the loop ends on CompleteAndContinue or CompleteNeeded.
ServerCall ==
    /\ pc = "server_call"
    /\ \E server_challenge \in 1..NumChallenges :
          LET res == accept_security_context_impl(ctx["server"], client_output_buffer,
                                                  server_challenge)
          IN  /\ ctx' = [ctx EXCEPT !["server"] = res.ctx]
              /\ server_output_buffer' =
                    IF res.ok THEN TokenBuffer(res.token) ELSE server_output_buffer
              /\ pc' = IF ~res.ok THEN "panicked"
                       ELSE IF res.status \in {"CompleteAndContinue", "CompleteNeeded"}
                       THEN "complete"
                       ELSE "client_call"
              /\ last' = Returned("accept_security_context", "server", res, <<>>)
    /\ rounds' = rounds + 1
    /\ UNCHANGED <<exceptNtlm, client_output_buffer, msgs, accepted, altered>>

\* complete_auth_token: nothing to do for NTLM; Ok.
CompleteAuthToken ==
    /\ pc = "complete"
    /\ pc' = "done"
    /\ last' = [NoCall EXCEPT !.op = "complete_auth_token", !.who = "server",
                              !.ok = TRUE, !.status = "Ok"]
    /\ UNCHANGED <<exceptNtlm, rounds, ctx, client_output_buffer, server_output_buffer,
                   msgs, accepted, altered>>

\* the doctest is past context r: r is Final, or the doctest has ended
PastHandshake(r) == ctx[r].state = "Final" \/ pc \in {"done", "panicked"}

\* A further initialize_security_context call on context r, carrying one of
\* the handshake tokens; its output goes to a buffer of the caller's own.
ExtraInitialize(r, input, client_challenge, key) ==
    /\ PastHandshake(r)
    /\ LET res == initialize_security_context_impl(ctx[r], input, client_challenge, key)
       IN  /\ ctx' = [ctx EXCEPT ![r] = res.ctx]
           /\ last' = Returned("initialize_security_context", r, res, <<>>)
    /\ UNCHANGED <<exceptNtlm, pc, rounds, client_output_buffer, server_output_buffer,
                   msgs, accepted, altered>>

\* A further accept_security_context call on context r.
ExtraAccept(r, input, server_challenge) ==
    /\ PastHandshake(r)
    /\ LET res == accept_security_context_impl(ctx[r], input, server_challenge)
       IN  /\ ctx' = [ctx EXCEPT ![r] = res.ctx]
           /\ last' = Returned("accept_security_context", r, res, <<>>)
    /\ UNCHANGED <<exceptNtlm, pc, rounds, client_output_buffer, server_output_buffer,
                   msgs, accepted, altered>>

\* the protected messages context r has sent
SentBy(r) == {m \in msgs : m.from = r}

\* encrypt_message on context r of a message with a Token buffer and, when
\* with_data, a Data buffer holding plain; the result goes to the transport.
EncryptMessage(r, plain, with_data, sequence_number) ==
    /\ Cardinality(msgs) < MaxMsgs
    /\ LET message == IF with_data
                      THEN <<SecurityBufferNew(NoSignature, "Token"),
                             SecurityBufferNew(plain, "Data")>>
                      ELSE <<SecurityBufferNew(NoSignature, "Token")>>
           res == encrypt_message(ctx[r], message, sequence_number)
       IN  /\ ctx' = [ctx EXCEPT ![r] = res.ctx]
           /\ msgs' = IF res.ok
                      THEN msgs \cup {[from |-> r, signature |-> res.token,
                                       data |-> res.data, plain |-> plain]}
                      ELSE msgs
           /\ last' = Returned("encrypt_message", r, res, <<>>)
    /\ UNCHANGED <<exceptNtlm, pc, rounds, client_output_buffer, server_output_buffer, accepted, altered>>

\* decrypt_message on context r of message m as the transport delivers it.
DecryptMessage(r, m, sequence_number) ==
    LET message == <<SecurityBufferNew(m.signature, "Token"), SecurityBufferNew(m.data, "Data")>>
        res == decrypt_message(ctx[r], message, sequence_number)
        is_altered == res.err.error_type = "MessageAltered"
    IN  /\ is_altered => altered[r] < MaxAltered
        /\ ctx' = [ctx EXCEPT ![r] = res.ctx]
        /\ accepted' = IF res.ok THEN [accepted EXCEPT ![r] = @ \cup {m}] ELSE accepted
        /\ altered' = IF is_altered THEN [altered EXCEPT ![r] = @ + 1] ELSE altered
        /\ last' = [Returned("decrypt_message", r, res, res.data)
                       EXCEPT !.from = m.from, !.seq = m.signature.seq]
        /\ UNCHANGED <<exceptNtlm, pc, rounds, client_output_buffer, server_output_buffer, msgs>>

(***************************************************************************)
(* ErrorKind (#[repr(u32)]) and SecurityStatus as numbers: the variants in  *)
(* the order declared, each with its discriminant as a u32 <<high, low>>,   *)
(* and the conversions derive(ToPrimitive, FromPrimitive) gives them.       *)
(***************************************************************************)
ErrorKindVariants ==
    <<<<"Unknown", <<0, 0>>>>, <<"InsufficientMemory", <<32777, 768>>>>,
      <<"InvalidHandle", <<32777, 769>>>>,
      <<"UnsupportedFunction", <<32777, 770>>>>,
      <<"TargetUnknown", <<32777, 771>>>>,
      <<"InternalError", <<32777, 772>>>>,
      <<"SecurityPackageNotFound", <<32777, 773>>>>,
      <<"NotOwned", <<32777, 774>>>>, <<"CannotInstall", <<32777, 775>>>>,
      <<"InvalidToken", <<32777, 776>>>>, <<"CannotPack", <<32777, 777>>>>,
      <<"OperationNotSupported", <<32777, 778>>>>,
      <<"NoImpersonation", <<32777, 779>>>>,
      <<"LogonDenied", <<32777, 780>>>>,
      <<"UnknownCredentials", <<32777, 781>>>>,
      <<"NoCredentials", <<32777, 782>>>>,
      <<"MessageAltered", <<32777, 783>>>>,
      <<"OutOfSequence", <<32777, 784>>>>,
      <<"NoAuthenticatingAuthority", <<32777, 785>>>>,
      <<"BadPackageId", <<32777, 790>>>>,
      <<"ContextExpired", <<32777, 791>>>>,
      <<"IncompleteMessage", <<32777, 792>>>>,
      <<"IncompleteCredentials", <<32777, 800>>>>,
      <<"BufferTooSmall", <<32777, 801>>>>,
      <<"WrongPrincipalName", <<32777, 802>>>>,
      <<"TimeSkew", <<32777, 804>>>>, <<"UntrustedRoot", <<32777, 805>>>>,
      <<"IllegalMessage", <<32777, 806>>>>,
      <<"CertificateUnknown", <<32777, 807>>>>,
      <<"CertificateExpired", <<32777, 808>>>>,
      <<"EncryptFailure", <<32777, 809>>>>,
      <<"DecryptFailure", <<32777, 816>>>>,
      <<"AlgorithmMismatch", <<32777, 817>>>>,
      <<"SecurityQosFailed", <<32777, 818>>>>,
      <<"UnfinishedContextDeleted", <<32777, 819>>>>,
      <<"NoTgtReply", <<32777, 820>>>>, <<"NoIpAddress", <<32777, 821>>>>,
      <<"WrongCredentialHandle", <<32777, 822>>>>,
      <<"CryptoSystemInvalid", <<32777, 823>>>>,
      <<"MaxReferralsExceeded", <<32777, 824>>>>,
      <<"MustBeKdc", <<32777, 825>>>>,
      <<"StrongCryptoNotSupported", <<32777, 826>>>>,
      <<"TooManyPrincipals", <<32777, 827>>>>,
      <<"NoPaData", <<32777, 828>>>>,
      <<"PkInitNameMismatch", <<32777, 829>>>>,
      <<"SmartCardLogonRequired", <<32777, 830>>>>,
      <<"ShutdownInProgress", <<32777, 831>>>>,
      <<"KdcInvalidRequest", <<32777, 832>>>>,
      <<"KdcUnknownEType", <<32777, 833>>>>,
      <<"KdcUnknownEType2", <<32777, 834>>>>,
      <<"UnsupportedPreAuth", <<32777, 835>>>>,
      <<"DelegationRequired", <<32777, 837>>>>,
      <<"BadBindings", <<32777, 838>>>>,
      <<"MultipleAccounts", <<32777, 839>>>>,
      <<"NoKerdKey", <<32777, 840>>>>, <<"CertWrongUsage", <<32777, 841>>>>,
      <<"DowngradeDetected", <<32777, 848>>>>,
      <<"SmartCardCertificateRevoked", <<32777, 849>>>>,
      <<"IssuingCAUntrusted", <<32777, 850>>>>,
      <<"RevocationOffline", <<32777, 851>>>>,
      <<"PkInitClientFailure", <<32777, 852>>>>,
      <<"SmartCardCertExpired", <<32777, 853>>>>,
      <<"NoS4uProtSupport", <<32777, 854>>>>,
      <<"CrossRealmDelegationFailure", <<32777, 855>>>>,
      <<"RevocationOfflineKdc", <<32777, 856>>>>,
      <<"IssuingCaUntrustedKdc", <<32777, 857>>>>,
      <<"KdcCertExpired", <<32777, 858>>>>,
      <<"KdcCertRevoked", <<32777, 859>>>>,
      <<"InvalidParameter", <<32777, 861>>>>,
      <<"DelegationPolicy", <<32777, 862>>>>,
      <<"PolicyNtlmOnly", <<32777, 863>>>>, <<"NoContext", <<32777, 865>>>>,
      <<"Pku2uCertFailure", <<32777, 866>>>>,
      <<"MutualAuthFailed", <<32777, 867>>>>,
      <<"OnlyHttpsAllowed", <<32777, 869>>>>,
      <<"ApplicationProtocolMismatch", <<32777, 871>>>>>>

SecurityStatusVariants ==
    <<<<"Ok", <<0, 0>>>>, <<"ContinueNeeded", <<9, 786>>>>,
      <<"CompleteNeeded", <<9, 787>>>>,
      <<"CompleteAndContinue", <<9, 788>>>>, <<"LocalLogon", <<9, 789>>>>,
      <<"ContextExpired", <<9, 791>>>>,
      <<"IncompleteCredentials", <<9, 800>>>>, <<"Renegotiate", <<9, 801>>>>,
      <<"NoLsaContext", <<9, 803>>>>>>

Variants(enum) == IF enum = "ErrorKind" THEN ErrorKindVariants ELSE SecurityStatusVariants

VariantNames(enum) == {Variants(enum)[i][1] : i \in 1..Len(Variants(enum))}

RECURSIVE Discriminant(_, _, _)
\* the discriminant of the variant, looked for from position i of the table
Discriminant(table, variant, i) ==
    IF table[i][1] = variant THEN table[i][2] ELSE Discriminant(table, variant, i + 1)

\* A bug the conversion could have: the value cut to its low 16 bits.
to_u32_low_half(e) == <<0, Discriminant(Variants(e.enum), e.variant, 1)[2]>>

\* A bug the conversion could have: the failure bit (bit 31) set on a status.
to_u32_failure_bit(e) ==
    LET n == Discriminant(Variants(e.enum), e.variant, 1)
    IN  <<(n[1] % (Limb \div 2)) + (Limb \div 2), n[2]>>

\* ToPrimitive::to_u32 of the enum value e
to_u32(e) == Discriminant(Variants(e.enum), e.variant, 1)

RECURSIVE FirstVariant(_, _, _)
\* the first variant from position i of the table whose discriminant is n
FirstVariant(table, n, i) ==
    IF i > Len(table) THEN "None"
    ELSE IF table[i][2] = n THEN table[i][1]
    ELSE FirstVariant(table, n, i + 1)

\* FromPrimitive::from_u32(n) for the enum: Some(variant) or None
from_u32(enum, n) == FirstVariant(Variants(enum), n, 1)

EnumValues == {[enum |-> en, variant |-> v] : en \in {"ErrorKind", "SecurityStatus"}, v \in
                  VariantNames("ErrorKind") \cup VariantNames("SecurityStatus")}

NumNotConverted == [done |-> FALSE, value |-> Zero32, back |-> "None"]

IdleNum ==
    /\ num_in = [enum |-> "none", variant |-> ""]
    /\ num_out = NumNotConverted

InitNum ==
    /\ num_in \in {e \in EnumValues : e.variant \in VariantNames(e.enum)}
    /\ num_out = NumNotConverted

\* num_in.to_u32(), and from_u32 of the result.
ConvertNum ==
    /\ ~num_out.done
    /\ num_out' = [done |-> TRUE, value |-> to_u32(num_in),
                   back |-> from_u32(num_in.enum, to_u32(num_in))]
    /\ UNCHANGED <<num_in, exceptNum>>

(***************************************************************************)
(* KerberosConfig (src/sspi/kerberos/config.rs).  A string is the sequence  *)
(* of its characters.  Url::from_str is the parser of the url crate (2.5),  *)
(* for strings written in letters, digits and . - + : / \ ? # with spaces   *)
(* around them: the scheme, an authority of host and port, the path, the    *)
(* query and the fragment.  Not modelled, and so not among the values       *)
(* tried: userinfo, IPv6 literals, hosts of a special scheme that end in a  *)
(* number (IPv4), IDNA, percent-encoding, "." and ".." path segments,       *)
(* Windows drive letters in file URLs, control characters.                  *)
(***************************************************************************)
UpperCase == <<"A", "B", "C", "D", "E", "F", "G", "H", "I", "J", "K", "L", "M", "N", "O", "P", "Q", "R", "S", "T", "U", "V", "W", "X", "Y", "Z">>

LowerCase == <<"a", "b", "c", "d", "e", "f", "g", "h", "i", "j", "k", "l", "m", "n", "o", "p", "q", "r", "s", "t", "u", "v", "w", "x", "y", "z">>

Digits == <<"0", "1", "2", "3", "4", "5", "6", "7", "8", "9">>

Range(seq) == {seq[i] : i \in 1..Len(seq)}

IndexIn(seq, c) == CHOOSE i \in 1..Len(seq) : seq[i] = c

to_ascii_lowercase(c) == IF c \in Range(UpperCase) THEN LowerCase[IndexIn(UpperCase, c)] ELSE c

\* str::contains: pat occurs in s
Contains(s, pat) ==
    \E i \in 1..Len(s) : i + Len(pat) - 1 <= Len(s) /\ SubSeq(s, i, i + Len(pat) - 1) = pat

\* the position of the first character of s, from i on, that is in set; 0 if none
RECURSIVE FirstOf(_, _, _)
FirstOf(s, set, i) ==
    IF i > Len(s) THEN 0 ELSE IF s[i] \in set THEN i ELSE FirstOf(s, set, i + 1)

\* The position of the ":" that ends the scheme of input, looked for from i:
\* a letter, then letters, digits, "+", "-" and "."; 0 if input has no scheme.
RECURSIVE SchemeEnd(_, _)
SchemeEnd(input, i) ==
    IF i > Len(input) THEN 0
    ELSE IF input[i] = ":" THEN (IF i > 1 THEN i ELSE 0)
    ELSE IF input[i] \in Range(UpperCase) \cup Range(LowerCase) THEN SchemeEnd(input, i + 1)
    ELSE IF i > 1 /\ input[i] \in Range(Digits) \cup {"+", "-", "."} THEN SchemeEnd(input, i + 1)
    ELSE 0

\* the port the digits of s write from position i on, value so far: Parser::parse_port
\* gives up as soon as the value passes u16::MAX, so leading zeros count for nothing
RECURSIVE ParseNumber(_, _, _)
ParseNumber(s, i, value) ==
    IF i > Len(s) \/ value > 65535 THEN value
    ELSE ParseNumber(s, i + 1, value * 10 + (IndexIn(Digits, s[i]) - 1))

FileScheme == <<"f", "i", "l", "e">>

\* the schemes the URL standard calls special
SpecialSchemes == {<<"h", "t", "t", "p">>, <<"h", "t", "t", "p", "s">>, <<"w", "s">>, <<"w", "s", "s">>, <<"f", "t", "p">>, FileScheme}

\* the port a special scheme has when none is written; -1: the scheme has none
default_port(scheme) ==
    CASE scheme \in {<<"h", "t", "t", "p">>, <<"w", "s">>} -> 80
      [] scheme \in {<<"h", "t", "t", "p", "s">>, <<"w", "s", "s">>} -> 443
      [] scheme = <<"f", "t", "p">> -> 21
      [] OTHER -> -1

\* Option<&str>: a query or a fragment the URL has not, and one it has
AbsentPart == [some |-> FALSE, value |-> <<>>]

Part(value) == [some |-> TRUE, value |-> value]

\* host <<>> is no host (or the empty one), port -1 is None
NoUrl == [scheme |-> <<>>, host |-> <<>>, port |-> -1, path |-> <<>>, query |-> AbsentPart, fragment |-> AbsentPart]

UrlOk(scheme, host, port, path, query, fragment) ==
    [ok |-> TRUE, err |-> "",
     url |-> [scheme |-> scheme, host |-> host, port |-> port, path |-> path, query |-> query, fragment |-> fragment]]

UrlErr(err) == [ok |-> FALSE, err |-> err, url |-> NoUrl]

\* the characters of s from position i on
From(s, i) == SubSeq(s, i, Len(s))

\* the leading "/" and "\\" of s dropped
RECURSIVE SkipSlashes(_)
SkipSlashes(s) == IF s # <<>> /\ s[1] \in {"/", "\\"} THEN SkipSlashes(Tail(s)) ELSE s

\* the spaces around s dropped, as the parser drops them from its input
RECURSIVE Trim(_)
Trim(s) ==
    IF s # <<>> /\ s[1] = " " THEN Trim(Tail(s))
    ELSE IF s # <<>> /\ s[Len(s)] = " " THEN Trim(SubSeq(s, 1, Len(s) - 1))
    ELSE s

\* s cut into what stands before the first "?" or "#", the query and the fragment
SplitRest(s) ==
    LET hash == FirstOf(s, {"#"}, 1)
        before == IF hash = 0 THEN s ELSE SubSeq(s, 1, hash - 1)
        mark == FirstOf(before, {"?"}, 1)
    IN  [path |-> IF mark = 0 THEN before ELSE SubSeq(before, 1, mark - 1),
         query |-> IF mark = 0 THEN AbsentPart ELSE Part(From(before, mark + 1)),
         fragment |-> IF hash = 0 THEN AbsentPart ELSE Part(From(s, hash + 1))]

\* The path written for what follows the authority: a special URL always has
\* one, and "\\" is "/" in it; a file URL loses the empty segments its path
\* starts with; any other path starts with "/" or is empty.
PathOf(scheme, raw) ==
    IF scheme \in SpecialSchemes
    THEN (IF raw = <<>> THEN <<"/">>
          ELSE LET slashed == [i \in 1..Len(raw) |-> IF raw[i] = "\\" THEN "/" ELSE raw[i]]
               IN  IF scheme = FileScheme THEN <<"/">> \o SkipSlashes(slashed)
                   ELSE IF slashed[1] = "/" THEN slashed ELSE <<"/">> \o slashed)
    ELSE IF raw # <<>> /\ raw[1] # "/" THEN <<"/">> \o raw ELSE raw

\* the URL of an authority parsed and what follows it
WithRest(scheme, host, port, rest) ==
    LET parts == SplitRest(rest)
    IN  UrlOk(scheme, host, port, PathOf(scheme, parts.path), parts.query, parts.fragment)

\* The characters no host may hold, of those the values tried are written in:
\* Host::parse_opaque refuses them itself, Host::parse has them refused by idna.
ForbiddenHostCodePoints == {" ", "#", "/", ":", "?", "\\"}

\* Parser::parse_port and what follows the port
ParsePort(scheme, host, s) ==
    LET stop == FirstOf(s, {c \in Range(s) : c \notin Range(Digits)}, 1)
        digits == IF stop = 0 THEN s ELSE SubSeq(s, 1, stop - 1)
        port == ParseNumber(digits, 1, 0)
    IN  IF port > 65535 THEN UrlErr("InvalidPort")
        ELSE IF stop # 0 /\ s[stop] \notin {"/", "\\", "?", "#"} THEN UrlErr("InvalidPort")
        ELSE WithRest(scheme, host,
                      IF digits = <<>> \/ port = default_port(scheme) THEN -1 ELSE port,
                      IF stop = 0 THEN <<>> ELSE From(s, stop))

\* Parser::after_double_slash without userinfo: host[:port] and what follows it
ParseAuthority(scheme, s) ==
    LET special == scheme \in SpecialSchemes
        end == FirstOf(s, {":", "/", "?", "#"} \cup (IF special THEN {"\\"} ELSE {}), 1)
        host_str == IF end = 0 THEN s ELSE SubSeq(s, 1, end - 1)
        remaining == IF end = 0 THEN <<>> ELSE From(s, end)
        host == IF special THEN [i \in 1..Len(host_str) |-> to_ascii_lowercase(host_str[i])]
                ELSE host_str
    IN  IF special /\ host_str = <<>> THEN UrlErr("EmptyHost")
        ELSE IF Range(host_str) \cap ForbiddenHostCodePoints # {}
        THEN UrlErr(IF special THEN "IdnaError" ELSE "InvalidDomainCharacter")
        ELSE IF host_str = <<>> /\ remaining # <<>> /\ remaining[1] = ":" THEN UrlErr("EmptyHost")
        ELSE IF remaining # <<>> /\ remaining[1] = ":" THEN ParsePort(scheme, host, Tail(remaining))
        ELSE WithRest(scheme, host, -1, remaining)

\* Parser::parse_file without a base URL: no port, "localhost" is no host
ParseFile(rest) ==
    IF Len(rest) >= 2 /\ rest[1] \in {"/", "\\"} /\ rest[2] \in {"/", "\\"}
    THEN LET s == From(rest, 3)
             end == FirstOf(s, {"/", "\\", "?", "#"}, 1)
             host_str == IF end = 0 THEN s ELSE SubSeq(s, 1, end - 1)
             host == [i \in 1..Len(host_str) |-> to_ascii_lowercase(host_str[i])]
         IN  IF Range(host_str) \cap ForbiddenHostCodePoints # {} THEN UrlErr("IdnaError")
             ELSE WithRest(FileScheme,
                           IF host = <<"l", "o", "c", "a", "l", "h", "o", "s", "t">> THEN <<>> ELSE host,
                           -1, IF end = 0 THEN <<>> ELSE From(s, end))
    ELSE WithRest(FileScheme, <<>>, -1, rest)

\* Url::from_str(input)
Url_from_str(input) ==
    LET trimmed == Trim(input)
        end == SchemeEnd(trimmed, 1)
    IN
    IF end = 0 THEN UrlErr("RelativeUrlWithoutBase")
    ELSE LET scheme == [i \in 1..(end - 1) |-> to_ascii_lowercase(trimmed[i])]
             rest == From(trimmed, end + 1)
             parts == SplitRest(rest)
         IN  IF scheme = FileScheme THEN ParseFile(rest)
             ELSE IF scheme \in SpecialSchemes THEN ParseAuthority(scheme, SkipSlashes(rest))
             ELSE IF Len(rest) >= 2 /\ SubSeq(rest, 1, 2) = <<"/", "/">>
             THEN ParseAuthority(scheme, From(rest, 3))
             ELSE UrlOk(scheme, <<>>, -1, parts.path, parts.query, parts.fragment)

\* A bug get_kdc_env could have: only https taken for a proxy.
kdc_type_of_https_only(scheme) == IF scheme = <<"h", "t", "t", "p", "s">> THEN "KdcProxy" ELSE "Kdc"

\* match kdc_url.scheme() { .. }
kdc_type_of(scheme) ==
    CASE scheme = <<"t", "c", "p">> -> "Kdc"
      [] scheme = <<"u", "d", "p">> -> "Kdc"
      [] scheme = <<"h", "t", "t", "p">> -> "KdcProxy"
      [] scheme = <<"h", "t", "t", "p", "s">> -> "KdcProxy"
      [] OTHER -> "Kdc"

\* what a call leaves: the Option returned, Some((url, kdc_type)) or None,
\* or a panic with its message
KdcSome(input, url, kdc_type) ==
    [done |-> TRUE, panicked |-> FALSE, returned |-> "Some", message |-> "",
     parsed |-> input, url |-> url, kdc_type |-> kdc_type]

KdcPanic(input, message) ==
    [done |-> TRUE, panicked |-> TRUE, returned |-> "", message |-> message,
     parsed |-> input, url |-> NoUrl, kdc_type |-> ""]

KdcNotCalled ==
    [done |-> FALSE, panicked |-> FALSE, returned |-> "", message |-> "",
     parsed |-> <<>>, url |-> NoUrl, kdc_type |-> ""]

\* the environment variable is not set
NotSet == [set |-> FALSE, value |-> <<>>]

\* the message of expect on the Err of env::var
ExpectMessage == "SSPI_KDC_URL environment variable must be set!: NotPresent"

\* the message of unwrap on the Err of Url::from_str, without its backquotes
UnwrapMessage(err) == "called Result::unwrap() on an Err value: " \o err

\* A bug get_kdc_env could have: the value parsed as it is, no scheme assumed.
get_kdc_env_as_is(env) ==
    IF ~env.set THEN KdcPanic(<<>>, ExpectMessage)
    ELSE LET kdc_url == Url_from_str(env.value)
         IN  IF ~kdc_url.ok THEN KdcPanic(env.value, UnwrapMessage(kdc_url.err))
             ELSE KdcSome(env.value, kdc_url.url, kdc_type_of(kdc_url.url.scheme))

\* A bug get_kdc_env could have: None for a variable that is not set or
\* holds no URL, as its return type suggests.
get_kdc_env_or_none(env) ==
    LET None(input) == [KdcSome(input, NoUrl, "") EXCEPT !.returned = "None"]
    IN  IF ~env.set THEN None(<<>>)
        ELSE LET kdc_url_env_1 == IF ~Contains(env.value, <<":", "/", "/">>)
                                  THEN <<"t", "c", "p", ":", "/", "/">> \o env.value
                                  ELSE env.value
                 kdc_url == Url_from_str(kdc_url_env_1)
             IN  IF ~kdc_url.ok THEN None(kdc_url_env_1)
                 ELSE KdcSome(kdc_url_env_1, kdc_url.url, kdc_type_of(kdc_url.url.scheme))

\* KerberosConfig::get_kdc_env(), the environment being env; parsed is the
\* string handed to Url::from_str.
get_kdc_env(env) ==
    IF ~env.set THEN KdcPanic(<<>>, ExpectMessage)
    ELSE LET kdc_url_env_1 == IF ~Contains(env.value, <<":", "/", "/">>)
                              THEN <<"t", "c", "p", ":", "/", "/">> \o env.value
                              ELSE env.value
             kdc_url == Url_from_str(kdc_url_env_1)
         IN  IF ~kdc_url.ok THEN KdcPanic(kdc_url_env_1, UnwrapMessage(kdc_url.err))
             ELSE KdcSome(kdc_url_env_1, kdc_url.url, kdc_type_of(kdc_url.url.scheme))

\* KerberosConfig::new_with_network_client(network_client); a panic of
\* get_kdc_env passes through it
new_with_network_client(env, network_client) ==
    LET got == get_kdc_env(env)
    IN  IF got.panicked THEN [got EXCEPT !.parsed = <<>>]
        ELSE IF got.returned = "Some"
        THEN [KdcSome(<<>>, got.url, got.kdc_type) EXCEPT !.returned = "Self"]
        ELSE KdcPanic(<<>>, "SSPI_KDC_URL environment variable is not set properly!")

\* ---- the values of SSPI_KDC_URL tried: what stands before the host, a
\* separator, and the host ----
UrlPrefixes == {<<>>, <<"t", "c", "p">>, <<"u", "d", "p">>, <<"h", "t", "t", "p">>, <<"h", "t", "t", "p", "s">>, <<"l", "d", "a", "p">>, <<"H", "T", "T", "P">>, <<"1", "k", "d", "c">>}

UrlSeparators == {<<>>, <<":">>, <<":", "/", "/">>}

UrlHosts == {<<>>, <<"k", "d", "c", ".", "e", "x", "a", "m", "p", "l", "e", ".", "c", "o", "m">>, <<"k", "d", "c", ":", "8", "8">>,
             <<"k", "d", "c", ":", "x">>, <<"k", "d", "c", ":", "0", "0", "0", "0", "8", "8">>,
             <<"K", "d", "c", ":", "8", "0", "/", "x", "?", "q">>}

KdcUrlEnvs ==
    {NotSet} \cup {[set |-> TRUE, value |-> p \o sep \o h] :
                      p \in UrlPrefixes, sep \in UrlSeparators, h \in UrlHosts}

IdleKdc ==
    /\ kdc_url_env = NotSet
    /\ kdc_env = KdcNotCalled
    /\ config = KdcNotCalled

InitKdc ==
    /\ kdc_url_env \in KdcUrlEnvs
    /\ kdc_env = KdcNotCalled
    /\ config = KdcNotCalled

\* A call of KerberosConfig::get_kdc_env().
GetKdcEnv ==
    /\ ~kdc_env.done
    /\ kdc_env' = get_kdc_env(kdc_url_env)
    /\ UNCHANGED <<kdc_url_env, config, exceptKdc>>

\* A call of KerberosConfig::new_with_network_client(network_client).
NewWithNetworkClient ==
    /\ ~config.done
    /\ config' = new_with_network_client(kdc_url_env, "network_client")
    /\ UNCHANGED <<kdc_url_env, kdc_env, exceptKdc>>

(***************************************************************************)
(* The security packages: query_security_package_info and                   *)
(* enumerate_security_packages.  The contents of a descriptor are named by  *)
(* the static they were constructed in; a value returned is the caller's    *)
(* to change.                                                               *)
(***************************************************************************)
PackageInfo(static) == [static |-> static]

NoPackageInfo == PackageInfo("")

\* SecurityPackageType::Ntlm, ::Kerberos, ::Other(name)
Ntlm == [variant |-> "Ntlm", name |-> ""]

Kerberos == [variant |-> "Kerberos", name |-> ""]

Other(name) == [variant |-> "Other", name |-> name]

PackageNames ==
    {head \o tail : head \in {"", "NTLM", "Kerberos", "Negotiate", "CredSSP", "Schannel"},
                    tail \in {"", "2", " ", "SSP"}}

SecurityPackageTypes == {Ntlm, Kerberos} \cup {Other(name) : name \in PackageNames}

PackageStatics == {"ntlm::PACKAGE_INFO", "kerberos::PACKAGE_INFO", "kerberos::NEGO_PACKAGE_INFO"}

\* {:?} of a String without a character to escape
DebugString(str) == "\"" \o str \o "\""

\* A bug clone could have: the static itself handed out, not a copy.
clone_shared(static) ==
    [static |-> static, at |-> "static", contents |-> package_statics[static]]

\* STATIC.clone(): a value of the caller's own with the contents of the static
clone(static) ==
    [static |-> static, at |-> "own", contents |-> package_statics[static]]

\* A bug the query could have: an Other package answered by its name.
query_security_package_info_by_name(type) ==
    IF type.variant = "Ntlm" \/ type.name = "NTLM"
    THEN [ok |-> TRUE, info |-> clone("ntlm::PACKAGE_INFO").contents, err |-> NoError,
          clones |-> <<clone("ntlm::PACKAGE_INFO")>>]
    ELSE IF type.variant = "Kerberos" \/ type.name = "Kerberos"
    THEN [ok |-> TRUE, info |-> clone("kerberos::PACKAGE_INFO").contents, err |-> NoError,
          clones |-> <<clone("kerberos::PACKAGE_INFO")>>]
    ELSE [ok |-> FALSE, info |-> NoPackageInfo, err |-> ErrorNew("Unknown", type.name),
          clones |-> <<>>]

\* query_security_package_info(package_type)
query_security_package_info(type) ==
    CASE type.variant = "Ntlm" ->
            [ok |-> TRUE, info |-> clone("ntlm::PACKAGE_INFO").contents, err |-> NoError,
             clones |-> <<clone("ntlm::PACKAGE_INFO")>>]
      [] type.variant = "Kerberos" ->
            [ok |-> TRUE, info |-> clone("kerberos::PACKAGE_INFO").contents, err |-> NoError,
             clones |-> <<clone("kerberos::PACKAGE_INFO")>>]
      [] type.variant = "Other" ->
            [ok |-> FALSE, info |-> NoPackageInfo,
             err |-> ErrorNew("Unknown",
                              "Queried info about unknown package: " \o DebugString(type.name)),
             clones |-> <<>>]

\* A bug the enumeration could have: the two descriptors the other way round.
enumerate_security_packages_reversed ==
    [ok |-> TRUE,
     list |-> <<clone("kerberos::NEGO_PACKAGE_INFO").contents,
                clone("kerberos::PACKAGE_INFO").contents>>,
     err |-> NoError,
     clones |-> <<clone("kerberos::NEGO_PACKAGE_INFO"), clone("kerberos::PACKAGE_INFO")>>]

\* enumerate_security_packages()
enumerate_security_packages ==
    [ok |-> TRUE,
     list |-> <<clone("kerberos::PACKAGE_INFO").contents,
                clone("kerberos::NEGO_PACKAGE_INFO").contents>>,
     err |-> NoError,
     clones |-> <<clone("kerberos::PACKAGE_INFO"), clone("kerberos::NEGO_PACKAGE_INFO")>>]

QueryNotCalled ==
    [done |-> FALSE,
     result |-> [ok |-> FALSE, info |-> NoPackageInfo, err |-> NoError, clones |-> <<>>]]

EnumerateNotCalled ==
    [done |-> FALSE, result |-> [ok |-> FALSE, list |-> <<>>, err |-> NoError, clones |-> <<>>]]

\* the contents a caller writes into a PackageInfo it holds
Overwritten == PackageInfo("overwritten by the caller")

\* the values held that their holder has written to
Changed == {i \in 1..Len(held) : held[i].value # held[i].returned}

\* the values a call returned, as the caller holds them from then on
Hold(clones) ==
    [i \in 1..Len(clones) |->
       [static |-> clones[i].static, at |-> clones[i].at,
        returned |-> clones[i].contents, value |-> clones[i].contents,
        changed_before |-> Cardinality(Changed)]]

IdlePkg ==
    /\ package_type = Other("")
    /\ package_info = QueryNotCalled
    /\ packages = EnumerateNotCalled
    /\ package_statics = [static \in PackageStatics |-> PackageInfo(static)]
    /\ held = <<>>

InitPkg ==
    /\ package_type \in SecurityPackageTypes
    /\ package_info = QueryNotCalled
    /\ packages = EnumerateNotCalled
    /\ package_statics = [static \in PackageStatics |-> PackageInfo(static)]
    /\ held = <<>>

\* A call of query_security_package_info(package_type).
QuerySecurityPackageInfo ==
    LET result == query_security_package_info(package_type)
    IN  /\ Len(held) + Len(result.clones) <= MaxHeld
        /\ package_info' = [done |-> TRUE, result |-> result]
        /\ held' = held \o Hold(result.clones)
        /\ UNCHANGED <<package_type, packages, package_statics, exceptPkg>>

\* A call of enumerate_security_packages().
EnumerateSecurityPackages ==
    LET result == enumerate_security_packages
    IN  /\ Len(held) + Len(result.clones) <= MaxHeld
        /\ packages' = [done |-> TRUE, result |-> result]
        /\ held' = held \o Hold(result.clones)
        /\ UNCHANGED <<package_type, package_info, package_statics, exceptPkg>>

\* The caller writes to a PackageInfo it was returned (the fields are pub).
Mutate(i) ==
    /\ i \notin Changed
    /\ held' = [j \in 1..Len(held) |->
                  IF j = i \/ (held[i].at = "static" /\ held[j].at = "static"
                                                     /\ held[j].static = held[i].static)
                  THEN [held[j] EXCEPT !.value = Overwritten]
                  ELSE held[j]]
    /\ package_statics' =
          IF held[i].at = "static"
          THEN [package_statics EXCEPT ![held[i].static] = Overwritten]
          ELSE package_statics
    /\ UNCHANGED <<package_type, package_info, packages, exceptPkg>>

(***************************************************************************)
(* The AcceptSecurityContext builder.  The four phantom type parameters     *)
(* are fields holding the name of the marker type; a method of an impl      *)
(* block for some marker types is an action guarded by those markers.       *)
(***************************************************************************)
NoBuilder ==
    [inner |-> "None",
     phantom_creds_use_set |-> "", phantom_context_req_set |-> "",
     phantom_data_repr_set |-> "", phantom_output_set |-> "",
     credentials_handle |-> "None", context_requirements |-> 0,
     target_data_representation |-> "", output |-> 0, input |-> "None"]

\* A bug new could have: the package reference left out.
new_without_inner(inner) ==
    [inner |-> "None",
     phantom_creds_use_set |-> "WithoutCredentialsHandle",
     phantom_context_req_set |-> "WithoutContextRequirements",
     phantom_data_repr_set |-> "WithoutTargetDataRepresentation",
     phantom_output_set |-> "WithoutOutput",
     credentials_handle |-> "None",
     context_requirements |-> 0,
     target_data_representation |-> "Network",
     output |-> 0,
     input |-> "None"]

\* AcceptSecurityContext::new(inner) at the type EmptyAcceptSecurityContext
new(inner) ==
    [inner |-> inner,
     phantom_creds_use_set |-> "WithoutCredentialsHandle",
     phantom_context_req_set |-> "WithoutContextRequirements",
     phantom_data_repr_set |-> "WithoutTargetDataRepresentation",
     phantom_output_set |-> "WithoutOutput",
     credentials_handle |-> "None",
     context_requirements |-> 0,
     target_data_representation |-> "Network",
     output |-> 0,
     input |-> "None"]

\* A bug the setter could have: the marker set, the handle not stored.
with_credentials_handle_marker_only(self, credentials_handle) ==
    [self EXCEPT !.phantom_creds_use_set = "WithCredentialsHandle"]

with_credentials_handle(self, credentials_handle) ==
    [inner |-> self.inner,
     phantom_creds_use_set |-> "WithCredentialsHandle",
     phantom_context_req_set |-> self.phantom_context_req_set,
     phantom_data_repr_set |-> self.phantom_data_repr_set,
     phantom_output_set |-> self.phantom_output_set,
     credentials_handle |-> credentials_handle,
     context_requirements |-> self.context_requirements,
     target_data_representation |-> self.target_data_representation,
     output |-> self.output,
     input |-> self.input]

with_context_requirements(self, context_requirements) ==
    [inner |-> self.inner,
     phantom_creds_use_set |-> self.phantom_creds_use_set,
     phantom_context_req_set |-> "WithContextRequirements",
     phantom_data_repr_set |-> self.phantom_data_repr_set,
     phantom_output_set |-> self.phantom_output_set,
     credentials_handle |-> self.credentials_handle,
     context_requirements |-> context_requirements,
     target_data_representation |-> self.target_data_representation,
     output |-> self.output,
     input |-> self.input]

with_target_data_representation(self, target_data_representation) ==
    [inner |-> self.inner,
     phantom_creds_use_set |-> self.phantom_creds_use_set,
     phantom_context_req_set |-> self.phantom_context_req_set,
     phantom_data_repr_set |-> "WithTargetDataRepresentation",
     phantom_output_set |-> self.phantom_output_set,
     credentials_handle |-> self.credentials_handle,
     context_requirements |-> self.context_requirements,
     target_data_representation |-> target_data_representation,
     output |-> self.output,
     input |-> self.input]

\* A bug the setter could have: the input not carried over.
with_output_dropping_input(self, output) ==
    [self EXCEPT !.phantom_output_set = "WithOutput", !.output = output, !.input = "None"]

with_output(self, output) ==
    [inner |-> self.inner,
     phantom_creds_use_set |-> self.phantom_creds_use_set,
     phantom_context_req_set |-> self.phantom_context_req_set,
     phantom_data_repr_set |-> self.phantom_data_repr_set,
     phantom_output_set |-> "WithOutput",
     credentials_handle |-> self.credentials_handle,
     context_requirements |-> self.context_requirements,
     target_data_representation |-> self.target_data_representation,
     output |-> output,
     input |-> self.input]

with_input(self, input) == [self EXCEPT !.input = input]

\* A bug the type of execute could have: the output marker not asked for.
FilledWithoutOutput(self) ==
    /\ self.phantom_creds_use_set = "WithCredentialsHandle"
    /\ self.phantom_context_req_set = "WithContextRequirements"
    /\ self.phantom_data_repr_set = "WithTargetDataRepresentation"

\* the builder is of the type FilledAcceptSecurityContext
FilledAcceptSecurityContext(self) ==
    /\ self.phantom_creds_use_set = "WithCredentialsHandle"
    /\ self.phantom_context_req_set = "WithContextRequirements"
    /\ self.phantom_data_repr_set = "WithTargetDataRepresentation"
    /\ self.phantom_output_set = "WithOutput"

\* execute(mut self): self.inner.take().unwrap() panics when there is no
\* inner; otherwise the package's accept_security_context_impl(self) is
\* called with the builder, whose inner the take has left None
execute(self) ==
    [self |-> [self EXCEPT !.inner = "None"],
     outcome |-> IF self.inner = "None" THEN "Panicked" ELSE "InPackage"]

\* A bug transform could have: the arguments of a new builder.
transform_fresh(self, inner) ==
    [inner |-> inner,
     phantom_creds_use_set |-> "WithCredentialsHandle",
     phantom_context_req_set |-> "WithContextRequirements",
     phantom_data_repr_set |-> "WithTargetDataRepresentation",
     phantom_output_set |-> "WithOutput",
     credentials_handle |-> "None",
     context_requirements |-> 0,
     target_data_representation |-> "Network",
     output |-> 0,
     input |-> "None"]

\* transform(self, inner): the same arguments for another package
transform(self, inner) ==
    [inner |-> inner,
     phantom_creds_use_set |-> "WithCredentialsHandle",
     phantom_context_req_set |-> "WithContextRequirements",
     phantom_data_repr_set |-> "WithTargetDataRepresentation",
     phantom_output_set |-> "WithOutput",
     credentials_handle |-> self.credentials_handle,
     context_requirements |-> self.context_requirements,
     target_data_representation |-> self.target_data_representation,
     output |-> self.output,
     input |-> self.input]

\* the package transform hands the builder to
Inners == {"Some(inner 2)"}

CredentialsHandles == {"Some(handle 1)", "Some(handle 2)"}

\* bits of ServerRequestFlags: empty, CONFIDENTIALITY
ContextRequirements == {0, 16}

DataRepresentations == {"Network", "Native"}

\* output slices by identity, 0 the empty slice of new
Outputs == {1, 2}

Inputs == {"Some(input 1)", "Some(input 2)"}

IdleBuilder ==
    /\ builder = NoBuilder
    /\ calls = <<>>
    /\ args = <<>>
    /\ accept_result = "NotExecuted"

\* how many of the calls so far were calls of this method
Count(method) == Cardinality({i \in 1..Len(calls) : calls[i] = method})

\* the fields of the builder that are pub, and what can be assigned to them
PubFields ==
    {"credentials_handle", "context_requirements", "target_data_representation", "output", "input"}

FieldValues(field) ==
    CASE field = "credentials_handle" -> {"None", "Some(handle 1)"}
      [] field = "context_requirements" -> {16}
      [] field = "target_data_representation" -> {"Native"}
      [] field = "output" -> {2}
      [] field = "input" -> {"None", "Some(input 1)"}

\* how an assignment to a field is written down among the calls
AssignmentTo(field) == field \o " ="

\* some field of the builder was assigned to without its setter
Assigned == \E i \in 1..Len(calls) : \E field \in PubFields : calls[i] = AssignmentTo(field)

\* The builder is in someone's hands: the caller's before execute, the
\* package's that execute handed it to after.
Building ==
    /\ calls # <<>>
    /\ accept_result \in {"NotExecuted", "InPackage"}
    /\ Len(calls) - Count("transform") - Count("execute") <= MaxCalls

\* Sspi::accept_security_context(&mut self)
AcceptSecurityContext ==
    /\ calls = <<>>
    /\ builder' = new("Some(inner)")
    /\ calls' = <<"new">>
    /\ args' = <<"Some(inner)">>
    /\ UNCHANGED <<accept_result, exceptBuilder>>

WithCredentialsHandle(credentials_handle) ==
    /\ Building
    /\ builder' = with_credentials_handle(builder, credentials_handle)
    /\ calls' = Append(calls, "with_credentials_handle")
    /\ args' = Append(args, credentials_handle)
    /\ UNCHANGED <<accept_result, exceptBuilder>>

WithContextRequirements(context_requirements) ==
    /\ Building
    /\ builder' = with_context_requirements(builder, context_requirements)
    /\ calls' = Append(calls, "with_context_requirements")
    /\ args' = Append(args, context_requirements)
    /\ UNCHANGED <<accept_result, exceptBuilder>>

WithTargetDataRepresentation(target_data_representation) ==
    /\ Building
    /\ builder' = with_target_data_representation(builder, target_data_representation)
    /\ calls' = Append(calls, "with_target_data_representation")
    /\ args' = Append(args, target_data_representation)
    /\ UNCHANGED <<accept_result, exceptBuilder>>

WithOutput(output) ==
    /\ Building
    /\ builder' = with_output(builder, output)
    /\ calls' = Append(calls, "with_output")
    /\ args' = Append(args, output)
    /\ UNCHANGED <<accept_result, exceptBuilder>>

WithInput(input) ==
    /\ Building
    /\ builder' = with_input(builder, input)
    /\ calls' = Append(calls, "with_input")
    /\ args' = Append(args, input)
    /\ UNCHANGED <<accept_result, exceptBuilder>>

\* builder.field = value, by whoever holds the builder: the field is pub,
\* the marker of the type stays as it was
Assign(field, value) ==
    /\ Building
    /\ Cardinality({i \in 1..Len(calls) : calls[i] \in {AssignmentTo(f) : f \in PubFields}}) < MaxAssignments
    /\ builder' = [builder EXCEPT ![field] = value]
    /\ calls' = Append(calls, AssignmentTo(field))
    /\ args' = Append(args, value)
    /\ UNCHANGED <<accept_result, exceptBuilder>>

\* How a call of a package's accept_security_context_impl ends when the
\* package does as section 7 of the specification says: every operation
\* returns a success status or a failure.  The packages are not part of the
\* sources modelled.
PackageOutcomes == {"Returned"}

\* execute, a method of FilledAcceptSecurityContext only; it consumes self.
\* The caller calls it, and so can the package on the builder it was handed:
\* the unwrap of that call panics unless a transform came first, and the
\* panic is then inside the package, which is left without a builder.
Execute ==
    /\ calls # <<>>
    /\ accept_result \in {"NotExecuted", "InPackage"}
    /\ FilledAcceptSecurityContext(builder)
    /\ builder' = execute(builder).self
    /\ accept_result' = IF accept_result = "InPackage" /\ execute(builder).outcome = "Panicked"
                        THEN "InPackageAfterPanic"
                        ELSE execute(builder).outcome
    /\ calls' = Append(calls, "execute")
    /\ args' = Append(args, "self")
    /\ UNCHANGED exceptBuilder

\* transform, a method of FilledAcceptSecurityContext only, by which a
\* package hands the builder on to another package
Transform(inner) ==
    /\ calls # <<>>
    /\ accept_result \in {"NotExecuted", "InPackage"}
    /\ Count("transform") < MaxTransforms
    /\ FilledAcceptSecurityContext(builder)
    /\ builder' = transform(builder, inner)
    /\ calls' = Append(calls, "transform")
    /\ args' = Append(args, inner)
    /\ UNCHANGED <<accept_result, exceptBuilder>>

\* The package's accept_security_context_impl returns, and execute with
\* it; a panic of an execute the package called was caught by the package.
PackageEnds(outcome) ==
    /\ accept_result \in {"InPackage", "InPackageAfterPanic"}
    /\ accept_result' = outcome
    /\ UNCHANGED <<builder, calls, args, exceptBuilder>>

\* A panic leaves the package's accept_security_context_impl: one the
\* package raised, or the one of an execute it called on the builder it was
\* handed and did not catch.  execute has no catch_unwind around the call,
\* so the panic unwinds through it and the caller's execute panics.
PackagePanics ==
    /\ accept_result \in {"InPackage", "InPackageAfterPanic"}
    /\ accept_result' = "PackagePanicked"
    /\ UNCHANGED <<builder, calls, args, exceptBuilder>>

(***************************************************************************)
(* SecurityPackageType to and from its name.                                *)
(***************************************************************************)
\* ntlm::PKG_NAME and kerberos::PKG_NAME
NtlmPkgName == "NTLM"

KerberosPkgName == "Kerberos"

\* impl ToString for SecurityPackageType
to_string(type) ==
    CASE type.variant = "Ntlm" -> NtlmPkgName
      [] type.variant = "Kerberos" -> KerberosPkgName
      [] type.variant = "Other" -> type.name

\* A bug from_str could have: the name kept, the known packages not told.
from_str_always_other(str) == [ok |-> TRUE, value |-> Other(str)]

\* impl FromStr for SecurityPackageType
from_str(str) ==
    CASE str = NtlmPkgName -> [ok |-> TRUE, value |-> Ntlm]
      [] str = KerberosPkgName -> [ok |-> TRUE, value |-> Kerberos]
      [] OTHER -> [ok |-> TRUE, value |-> Other(str)]

TypeNotConverted ==
    [done |-> FALSE, parsed |-> [ok |-> FALSE, value |-> Other("")], printed |-> ""]

IdleType ==
    /\ type_in = [str |-> "", type |-> Other("")]
    /\ type_out = [of_str |-> TypeNotConverted, of_type |-> TypeNotConverted]

InitType ==
    /\ type_in \in [str : PackageNames, type : SecurityPackageTypes]
    /\ type_out = [of_str |-> TypeNotConverted, of_type |-> TypeNotConverted]

\* s.parse::<SecurityPackageType>(), and to_string of what it gave
FromStrToString ==
    /\ ~type_out.of_str.done
    /\ LET parsed == from_str(type_in.str)
       IN  type_out' = [type_out EXCEPT !.of_str =
                          [done |-> TRUE, parsed |-> parsed,
                           printed |-> IF parsed.ok THEN to_string(parsed.value) ELSE ""]]
    /\ UNCHANGED <<type_in, exceptType>>

\* p.to_string(), and from_str of what it gave
ToStringFromStr ==
    /\ ~type_out.of_type.done
    /\ LET printed == to_string(type_in.type)
       IN  type_out' = [type_out EXCEPT !.of_type =
                          [done |-> TRUE, parsed |-> from_str(printed), printed |-> printed]]
    /\ UNCHANGED <<type_in, exceptType>>

(***************************************************************************)
(* The specifications.                                                     *)
(***************************************************************************)
InitSpecBuf == InitBuf /\ IdleErr /\ IdleNtlm /\ IdleNum /\ IdleKdc /\ IdlePkg /\ IdleBuilder /\ IdleType

NextBuf == FindBuffer \/ FindBufferMut

SpecBuf == InitSpecBuf /\ [][NextBuf]_vars

InitSpecErr == InitErr /\ IdleBuf /\ IdleNtlm /\ IdleNum /\ IdleKdc /\ IdlePkg /\ IdleBuilder /\ IdleType

NextErr == Convert \/ GetKrbStatusFromCode

SpecErr == InitSpecErr /\ [][NextErr]_vars

Init == InitNtlm /\ IdleBuf /\ IdleErr /\ IdleNum /\ IdleKdc /\ IdlePkg /\ IdleBuilder /\ IdleType

HandshakeInputs == {client_output_buffer, server_output_buffer}

Next ==
    \/ ClientCall
    \/ ServerCall
    \/ CompleteAuthToken
    \/ \E r \in Roles, input \in HandshakeInputs,
          client_challenge \in 1..NumChallenges, key \in 1..NumSessionKeys :
          ExtraInitialize(r, input, client_challenge, key)
    \/ \E r \in Roles, input \in HandshakeInputs, server_challenge \in 1..NumChallenges :
          ExtraAccept(r, input, server_challenge)
    \/ \E r \in Roles, plain \in Plaintexts, with_data \in BOOLEAN,
          sequence_number \in SequenceNumbers :
          EncryptMessage(r, plain, with_data, sequence_number)
    \/ \E r \in Roles, m \in msgs \cup {ForgedMessage}, sequence_number \in SequenceNumbers :
          DecryptMessage(r, m, sequence_number)

Spec == Init /\ [][Next]_vars

\* The doctest's loop runs on: each of its calls is made once it is due.
Fairness == WF_vars(ClientCall) /\ WF_vars(ServerCall) /\ WF_vars(CompleteAuthToken)

SpecFair == Init /\ [][Next]_vars /\ Fairness

\* A session long in use: the handshake of the doctest done, and each
\* direction's counter where the messages sent and received so far left it.
\* The stream positions count from here.
LongRunCounts == {<<0, Limb - 1>>, <<Limb - 1, Limb - 1>>}

InitLongRun ==
    LET negotiate == initialize_security_context_impl(NtlmNew(1), TokenBuffer(EmptyToken), 1, 1)
        challenge == accept_security_context_impl(NtlmNew(1), TokenBuffer(negotiate.token), 1)
        authenticate == initialize_security_context_impl(negotiate.ctx, TokenBuffer(challenge.token), 1, 1)
        complete == accept_security_context_impl(challenge.ctx, TokenBuffer(authenticate.token), 1)
    IN  /\ pc = "done"
        /\ rounds = 2
        /\ \E to_server \in LongRunCounts, to_client \in LongRunCounts :
              ctx = [r \in Roles |->
                        IF r = "client"
                        THEN [authenticate.ctx EXCEPT !.send_seq = to_server, !.recv_seq = to_client]
                        ELSE [complete.ctx EXCEPT !.send_seq = to_client, !.recv_seq = to_server]]
        /\ client_output_buffer = TokenBuffer(authenticate.token)
        /\ server_output_buffer = TokenBuffer(complete.token)
        /\ msgs = {}
        /\ accepted = [r \in Roles |-> {}]
        /\ altered = [r \in Roles |-> 0]
        /\ last = [NoCall EXCEPT !.op = "complete_auth_token", !.who = "server",
                                 !.ok = TRUE, !.status = "Ok"]

InitSeq == (InitNtlm \/ InitLongRun) /\ IdleBuf /\ IdleErr /\ IdleNum /\ IdleKdc /\ IdlePkg /\ IdleBuilder /\ IdleType

SpecSeq == InitSeq /\ [][Next]_vars

InitSpecNum == InitNum /\ IdleBuf /\ IdleErr /\ IdleNtlm /\ IdleKdc /\ IdlePkg /\ IdleBuilder /\ IdleType

NextNum == ConvertNum

SpecNum == InitSpecNum /\ [][NextNum]_vars

InitSpecKdc == InitKdc /\ IdleBuf /\ IdleErr /\ IdleNtlm /\ IdleNum /\ IdlePkg /\ IdleBuilder /\ IdleType

NextKdc == GetKdcEnv \/ NewWithNetworkClient

SpecKdc == InitSpecKdc /\ [][NextKdc]_vars

InitSpecPkg == InitPkg /\ IdleBuf /\ IdleErr /\ IdleNtlm /\ IdleNum /\ IdleKdc /\ IdleBuilder /\ IdleType

NextPkg ==
    \/ QuerySecurityPackageInfo
    \/ EnumerateSecurityPackages
    \/ \E i \in 1..Len(held) : Mutate(i)

SpecPkg == InitSpecPkg /\ [][NextPkg]_vars

InitSpecBuilder == IdleBuilder /\ IdleBuf /\ IdleErr /\ IdleNtlm /\ IdleNum /\ IdleKdc /\ IdlePkg /\ IdleType

NextBuilder ==
    \/ AcceptSecurityContext
    \/ \E credentials_handle \in CredentialsHandles : WithCredentialsHandle(credentials_handle)
    \/ \E context_requirements \in ContextRequirements :
          WithContextRequirements(context_requirements)
    \/ \E target_data_representation \in DataRepresentations :
          WithTargetDataRepresentation(target_data_representation)
    \/ \E output \in Outputs : WithOutput(output)
    \/ \E input \in Inputs : WithInput(input)
    \/ \E field \in PubFields : \E value \in FieldValues(field) : Assign(field, value)
    \/ \E inner \in Inners : Transform(inner)
    \/ Execute
    \/ \E outcome \in PackageOutcomes : PackageEnds(outcome)
    \/ PackagePanics

SpecBuilder == InitSpecBuilder /\ [][NextBuilder]_vars

InitSpecType ==
    InitType /\ IdleBuf /\ IdleErr /\ IdleNtlm /\ IdleNum /\ IdleKdc /\ IdlePkg /\ IdleBuilder

NextType == FromStrToString \/ ToStringFromStr

SpecType == InitSpecType /\ [][NextType]_vars

(***************************************************************************)
(* The claims.                                                             *)
(***************************************************************************)

\* The positions of the list whose buffer has the type looked for.
Matches(bufs, type) == {i \in 1..Len(bufs) : bufs[i].buffer_type = type}

\* C1: for every ordered list of SecurityBuffers and every buffer type T,
\* find_buffer returns the buffer at the lowest index whose buffer_type is T,
\* returns an Error of kind InvalidToken exactly when no buffer of the list
\* has type T (the empty list included), and leaves the list unchanged.
C1_FindBufferFirstMatch ==
    found.called =>
        /\ buffers = found.arg
        /\ found.result.ok <=> Matches(found.arg, buffer_type) # {}
        /\ found.result.ok =>
              /\ found.result.ref \in Matches(found.arg, buffer_type)
              /\ \A j \in Matches(found.arg, buffer_type) : found.result.ref <= j
        /\ ~found.result.ok => found.result.err.error_type = "InvalidToken"

\* C1's case: a call on a list with two buffers of the type looked for, of
\* different payloads, answered with the first.
C1_Witness ==
    /\ found.called
    /\ Cardinality(Matches(buffers, buffer_type)) >= 2
    /\ \E i, j \in Matches(buffers, buffer_type) : buffers[i].buffer # buffers[j].buffer
    /\ found.result.ok
    /\ found.result.ref = 2

\* ---- NTLM: what the claims speak of ----
\* the client and the server hold the same identity
SameIdentity == ctx["client"].identity = ctx["server"].identity

BothFinal == \A r \in Roles : ctx[r].state = "Final"

HandshakeOps == {"initialize_security_context", "accept_security_context"}

\* n + 1 modulo 2^32, on the limbs
Inc32(n) ==
    IF n = <<Limb - 1, Limb - 1>> THEN <<0, 0>>
    ELSE IF n[2] = Limb - 1 THEN <<n[1] + 1, 0>>
    ELSE <<n[1], n[2] + 1>>

\* the step is a call of encrypt_message on context r
IsEncrypt(r) ==
    \E plain \in Plaintexts, with_data \in BOOLEAN, sequence_number \in SequenceNumbers :
       EncryptMessage(r, plain, with_data, sequence_number)

\* the step is a call of decrypt_message on context r with message m
IsDecrypt(r, m) == \E sequence_number \in SequenceNumbers : DecryptMessage(r, m, sequence_number)

\* the step is a call of initialize_security_context or of
\* accept_security_context on context r
IsHandshakeCall(r) ==
    \/ ClientCall
    \/ ServerCall
    \/ \E input \in HandshakeInputs, client_challenge \in 1..NumChallenges,
          key \in 1..NumSessionKeys :
          ExtraInitialize(r, input, client_challenge, key)
    \/ \E input \in HandshakeInputs, server_challenge \in 1..NumChallenges :
          ExtraAccept(r, input, server_challenge)

\* the messages the transport can present
Presentable == msgs \cup {ForgedMessage}

\* m is the next message of the peer for r, and r has read nothing but the
\* peer's messages from its receive stream
InOrder(r, m) ==
    /\ ctx[r].state = "Final"
    /\ m.from = Peer(r)
    /\ m.signature.seq = ctx[r].recv_seq
    /\ altered[r] = 0

\* C2: a fresh client and a fresh server of the same identity, alternating
\* initialize_security_context (fed the server's last output) and
\* accept_security_context (fed the client's output): every call of the loop
\* returns a success status, the loop ends within two rounds on the server's
\* CompleteNeeded or CompleteAndContinue, both contexts are then Final with
\* the same exported session key, and the exchange does complete.
C2_HandshakeCompletes ==
    /\ [](SameIdentity =>
             /\ pc # "panicked"
             /\ rounds <= 2
             /\ pc \in {"complete", "done"} =>
                   /\ BothFinal
                   /\ ctx["client"].exported_session_key = ctx["server"].exported_session_key)
    /\ [][SameIdentity /\ pc' # pc =>
             /\ last'.ok
             /\ pc' = "complete" =>
                   /\ last'.op = "accept_security_context"
                   /\ last'.status \in {"CompleteNeeded", "CompleteAndContinue"}]_vars
    /\ [](SameIdentity => <>(pc = "done" /\ BothFinal))

\* C2's case: the loop of a same-identity pair ended after its second round
\* and complete_auth_token returned.
C2_Witness ==
    /\ SameIdentity
    /\ pc = "done"
    /\ rounds = 2
    /\ BothFinal
    /\ last.op = "complete_auth_token"

\* C3: after the handshake, the peer's decrypt_message of each message
\* encrypt_message put out, taken in the order sent, succeeds and yields the
\* plaintext; the decrypter's recv_seq is then the number after the
\* message's, which is the encrypter's send_seq once the encrypter's last
\* message is in.
C3_DecryptRecoversPlaintext ==
    [][\A r \in Roles, m \in msgs :
          IsDecrypt(r, m) /\ InOrder(r, m) =>
             /\ last'.ok
             /\ last'.data = m.plain
             /\ ctx'[r].recv_seq = Inc32(m.signature.seq)
             /\ (\A n \in SentBy(Peer(r)) : n.signature.seq = m.signature.seq \/ n \in accepted[r]) =>
                   ctx'[r].recv_seq = ctx'[Peer(r)].send_seq]_vars

\* C3's case: the server has decrypted a run of two messages of the client,
\* the last a plaintext of one byte, and its recv_seq is the client's send_seq.
C3_Witness ==
    /\ Cardinality(accepted["server"]) = 2
    /\ last.op = "decrypt_message" /\ last.who = "server" /\ last.ok
    /\ last.data = <<1>>
    /\ ctx["server"].recv_seq = <<0, 2>>
    /\ ctx["server"].recv_seq = ctx["client"].send_seq

\* C4: on a context that is not Final, encrypt_message and decrypt_message
\* return an error and leave the context (its state, its two sequence
\* counters) as it was; nothing goes out.
C4_NonFinalRejectsMessages ==
    [][\A r \in Roles :
          ctx[r].state # "Final" /\ (IsEncrypt(r) \/ \E m \in Presentable : IsDecrypt(r, m)) =>
             /\ ~last'.ok
             /\ last'.error_type # ""
             /\ ctx'[r].state = ctx[r].state
             /\ ctx'[r].send_seq = ctx[r].send_seq
             /\ ctx'[r].recv_seq = ctx[r].recv_seq
             /\ ctx' = ctx
             /\ msgs' = msgs]_vars

\* C4's case: the server, still in Challenge, was handed a message the
\* Final client sealed, and refused it.
C4_Witness ==
    /\ ctx["server"].state = "Challenge"
    /\ last.op = "decrypt_message" /\ last.who = "server" /\ last.from = "client"
    /\ ~last.ok
    /\ last.error_type = "OutOfSequence"

\* C5: on a Final context every further initialize_security_context or
\* accept_security_context call, whichever handshake token it carries, fails
\* with OutOfSequence and the context stays Final.
C5_FinalRejectsHandshake ==
    [][\A r \in Roles :
          ctx[r].state = "Final" /\ last'.op \in HandshakeOps /\ last'.who = r
             /\ IsHandshakeCall(r) =>
             /\ ~last'.ok
             /\ last'.error_type = "OutOfSequence"
             /\ ctx'[r].state = "Final"
             /\ ctx' = ctx]_vars

\* C5's case: after the handshake of a same-identity pair, the Final server
\* was called again with accept_security_context and refused.
C5_Witness ==
    /\ BothFinal
    /\ last.op = "accept_security_context" /\ last.who = "server"
    /\ ~last.ok
    /\ last.error_type = "OutOfSequence"

\* C7: the two counters of a context start at 0; send_seq moves, by exactly
\* one modulo 2^32, on a successful encrypt_message of the context and on
\* no other step, recv_seq likewise on a successful decrypt_message, each
\* without touching the other; the number a receiver is at after a message
\* is the number after the message's, past 2^32 - 1 too.
C7_CountersIndependentAndWrap ==
    /\ [](\A r \in Roles :
             ctx[r].state # "Final" => ctx[r].send_seq = Zero32 /\ ctx[r].recv_seq = Zero32)
    /\ [][\A r \in Roles :
             /\ ctx[r].state # "Final" /\ ctx'[r].state = "Final" =>
                   ctx'[r].send_seq = Zero32 /\ ctx'[r].recv_seq = Zero32
             /\ ctx[r].state = "Final" =>
                   /\ ctx'[r].send_seq = IF IsEncrypt(r) /\ last'.ok
                                         THEN Inc32(ctx[r].send_seq)
                                         ELSE ctx[r].send_seq
                   /\ ctx'[r].recv_seq = IF (\E m \in Presentable : IsDecrypt(r, m)) /\ last'.ok
                                         THEN Inc32(ctx[r].recv_seq)
                                         ELSE ctx[r].recv_seq
             /\ \A m \in msgs : IsDecrypt(r, m) /\ last'.ok =>
                   /\ m.from = Peer(r)
                   /\ ctx'[r].recv_seq = Inc32(m.signature.seq)]_vars

\* C7's case: the client sealed its message number 2^32 - 1 and the server
\* accepted it; the client's send_seq and the server's recv_seq are both 0,
\* and the other direction's counters are where they were.
C7_Witness ==
    /\ \E m \in accepted["server"] : m.from = "client" /\ m.signature.seq = <<Limb - 1, Limb - 1>>
    /\ ctx["client"].send_seq = Zero32
    /\ ctx["server"].recv_seq = Zero32
    /\ ctx["client"].recv_seq = <<0, Limb - 1>>
    /\ ctx["server"].send_seq = <<0, Limb - 1>>

\* The error-codes the claims say have a label: 0x00-0x1B, 0x1F-0x2A,
\* 0x2C-0x34 and 0x3C-0x44.
LabelledCodes == (0..27) \cup (31..42) \cup (44..52) \cup (60..68)

\* a KRB-ERROR has been converted
KrbConverted == err_out.done /\ err_in.type = "KrbError"

\* C8 (as claimed): converting a received KRB-ERROR maps its error-code to the
\* ErrorKind: 24 gives LogonDenied, 37 TimeSkew, 6 TargetUnknown and 68
\* NoAuthenticatingAuthority.
C8_KrbErrorCodeToKind ==
    KrbConverted =>
        /\ err_in.code = 24 => err_out.error.error_type = "LogonDenied"
        /\ err_in.code = 37 => err_out.error.error_type = "TimeSkew"
        /\ err_in.code = 6 => err_out.error.error_type = "TargetUnknown"
        /\ err_in.code = 68 => err_out.error.error_type = "NoAuthenticatingAuthority"

\* C9: a KRB-ERROR whose error-code is outside 0x00-0x1B, 0x1F-0x2A, 0x2C-0x34
\* and 0x3C-0x44 has no label and converts to an Error of kind InternalError
\* whose description carries "MISSING_ERROR"; the codes inside those ranges
\* are the ones with a label of their own.
C9_UnlabelledCodeIsInternalError ==
    KrbConverted =>
        /\ err_in.code \notin LabelledCodes =>
              /\ err_out.error.error_type = "InternalError"
              /\ err_out.error.description =
                    "Got the krb error: MISSING_ERROR (" \o err_in.text \o ")"
        /\ err_in.code \in LabelledCodes =>
              err_out.error.description #
                    "Got the krb error: MISSING_ERROR (" \o err_in.text \o ")"

\* C9's case: the conversions of a code in a gap of the table (0x2B), of a
\* one-byte code above the table whose DER form has a leading zero (0x80 and
\* up) and of a two-byte code whose low byte is a labelled code (0x0106).
C9_Witness ==
    /\ KrbConverted
    /\ err_in.code \in {43, 200, 262}
    /\ err_out.error.error_type = "InternalError"

\* C11: an I/O failure, handed over as an io::Error or inside a
\* GssApiMessageError::IoError, converts to an Error of kind InternalError
\* and of no other kind, its description the io::Error's.
C11_IoFailureIsInternalError ==
    err_out.done /\ err_in.type \in {"IoError", "GssApiMessageError::IoError"} =>
        /\ err_out.error.error_type = "InternalError"
        /\ err_out.error.description = "IO error: " \o err_in.text

\* C11's case: a timeout of the KDC client, wrapped in a GssApiMessageError,
\* has been converted.
C11_Witness ==
    /\ err_out.done
    /\ err_in.type = "GssApiMessageError::IoError"
    /\ err_in.text = "Kind(TimedOut)"
    /\ err_out.error.error_type = "InternalError"

\* the failures of parsing a wire token
ParseErrorTypes ==
    {"Asn1DerError", "GssApiMessageError::InvalidId", "GssApiMessageError::InvalidMicFiller",
     "GssApiMessageError::InvalidWrapFiller", "GssApiMessageError::Asn1Error"}

\* C12: an Asn1DerError and a GssApiMessageError of variant InvalidId,
\* InvalidMicFiller, InvalidWrapFiller or Asn1Error convert to an Error of
\* kind InvalidToken; a kerberos_crypto DecryptionError converts to kind
\* DecryptFailure, its description the one it carried.
C12_ParseFailureIsInvalidToken ==
    err_out.done =>
        /\ err_in.type \in ParseErrorTypes => err_out.error.error_type = "InvalidToken"
        /\ err_in.type = "DecryptionError" =>
              /\ err_out.error.error_type = "DecryptFailure"
              /\ err_out.error.description = err_in.text

\* C12's case: a GssApiMessageError::InvalidMicFiller has been converted to
\* an InvalidToken.
C12_Witness ==
    /\ err_out.done
    /\ err_in.type = "GssApiMessageError::InvalidMicFiller"
    /\ err_in.text = "invalid"
    /\ err_out.error.error_type = "InvalidToken"

\* n is one of the HRESULTs 0x80090300..0x80090367
InHresultRange(n) == n[1] = 32777 /\ 768 <= n[2] /\ n[2] <= 871

\* no other variant of num_in's enum has the value converted to
ValueIsOwn ==
    /\ \A v \in VariantNames(num_in.enum) \ {num_in.variant} :
          to_u32([num_in EXCEPT !.variant = v]) # num_out.value
    /\ num_out.back = num_in.variant

\* C13 (as claimed): the numeric value of every ErrorKind lies in
\* 0x80090300..0x80090367, and distinct ErrorKinds have distinct values.
C13_EveryErrorKindInRange ==
    num_out.done /\ num_in.enum = "ErrorKind" =>
        InHresultRange(num_out.value) /\ ValueIsOwn

\* C13 (amended): the numeric value of every ErrorKind but Unknown lies in
\* 0x80090300..0x80090367, the value of Unknown is 0, and distinct
\* ErrorKinds have distinct values.
C13_ErrorKindInRangeButUnknown ==
    num_out.done /\ num_in.enum = "ErrorKind" =>
        /\ num_in.variant # "Unknown" => InHresultRange(num_out.value)
        /\ num_in.variant = "Unknown" => num_out.value = <<0, 0>>
        /\ ValueIsOwn

\* C13's case: the last ErrorKind, ApplicationProtocolMismatch, converted to
\* 0x80090367.
C13_Witness ==
    /\ num_out.done
    /\ num_in = [enum |-> "ErrorKind", variant |-> "ApplicationProtocolMismatch"]
    /\ num_out.value = <<32777, 871>>

\* C14: Ok is 0x00000000, ContinueNeeded 0x00090312, CompleteNeeded
\* 0x00090313 and CompleteAndContinue 0x00090314; the values of distinct
\* SecurityStatus variants are distinct, and bit 31 of each is clear.
C14_SecurityStatusValues ==
    num_out.done /\ num_in.enum = "SecurityStatus" =>
        /\ num_in.variant = "Ok" => num_out.value = <<0, 0>>
        /\ num_in.variant = "ContinueNeeded" => num_out.value = <<9, 786>>
        /\ num_in.variant = "CompleteNeeded" => num_out.value = <<9, 787>>
        /\ num_in.variant = "CompleteAndContinue" => num_out.value = <<9, 788>>
        /\ ValueIsOwn
        /\ num_out.value[1] < 32768

\* C14's case: CompleteAndContinue converted to 0x00090314.
C14_Witness ==
    /\ num_out.done
    /\ num_in = [enum |-> "SecurityStatus", variant |-> "CompleteAndContinue"]
    /\ num_out.value = <<9, 788>>

\* the value has the scheme separator "://" somewhere
HasSchemeSeparator(value) ==
    \E i \in 1..(Len(value) - 2) : value[i] = ":" /\ value[i + 1] = "/" /\ value[i + 2] = "/"

\* C15: when the value of SSPI_KDC_URL has no "://", get_kdc_env parses
\* "tcp://" followed by the value, and the URL that results has scheme tcp
\* and type Kdc; when the value has "://", it is parsed as it is.
C15_SchemeDefaultsToTcp ==
    kdc_env.done /\ kdc_url_env.set =>
        /\ ~HasSchemeSeparator(kdc_url_env.value) =>
              /\ kdc_env.parsed = <<"t", "c", "p", ":", "/", "/">> \o kdc_url_env.value
              /\ ~kdc_env.panicked =>
                    kdc_env.url.scheme = <<"t", "c", "p">> /\ kdc_env.kdc_type = "Kdc"
        /\ HasSchemeSeparator(kdc_url_env.value) => kdc_env.parsed = kdc_url_env.value

\* C15's case: the value kdc:88, without a scheme, gave the URL of scheme
\* tcp, host kdc and port 88.
C15_Witness ==
    /\ kdc_env.done /\ ~kdc_env.panicked
    /\ kdc_url_env = [set |-> TRUE, value |-> <<"k", "d", "c", ":", "8", "8">>]
    /\ kdc_env.url.scheme = <<"t", "c", "p">>
    /\ kdc_env.url.host = <<"k", "d", "c">>
    /\ kdc_env.url.port = 88
    /\ kdc_env.kdc_type = "Kdc"

\* C16: for every URL get_kdc_env parses, the kdc_type is KdcProxy exactly
\* when the scheme of the URL is http or https, and Kdc otherwise; the
\* KerberosConfig of new_with_network_client has that url and that kdc_type.
C16_ProxyIffHttp ==
    /\ \A got \in {kdc_env, config} :
          got.done /\ ~got.panicked =>
             /\ got.kdc_type \in {"Kdc", "KdcProxy"}
             /\ got.kdc_type = "KdcProxy" <=> got.url.scheme \in {<<"h", "t", "t", "p">>, <<"h", "t", "t", "p", "s">>}
    /\ kdc_env.done /\ config.done =>
          /\ config.panicked = kdc_env.panicked
          /\ config.url = kdc_env.url
          /\ config.kdc_type = kdc_env.kdc_type

\* C16's case: the value HTTP://kdc.example.com gave a URL of scheme http,
\* and both calls the type KdcProxy.
C16_Witness ==
    /\ kdc_env.done /\ config.done
    /\ kdc_url_env = [set |-> TRUE, value |-> <<"H", "T", "T", "P", ":", "/", "/", "k", "d", "c", ".", "e", "x", "a", "m", "p", "l", "e", ".", "c", "o", "m">>]
    /\ kdc_env.url.scheme = <<"h", "t", "t", "p">>
    /\ kdc_env.kdc_type = "KdcProxy"
    /\ config.kdc_type = "KdcProxy"
    /\ config.url.host = <<"k", "d", "c", ".", "e", "x", "a", "m", "p", "l", "e", ".", "c", "o", "m">>

\* C17: query_security_package_info gives the NTLM descriptor for Ntlm, the
\* Kerberos descriptor for Kerberos, and for every Other(name) an Error of
\* kind Unknown and no descriptor, whatever the name.
C17_QueryPackageInfo ==
    package_info.done =>
        /\ package_type = Ntlm =>
              /\ package_info.result.ok
              /\ package_info.result.info = PackageInfo("ntlm::PACKAGE_INFO")
        /\ package_type = Kerberos =>
              /\ package_info.result.ok
              /\ package_info.result.info = PackageInfo("kerberos::PACKAGE_INFO")
        /\ package_type.variant = "Other" =>
              /\ ~package_info.result.ok
              /\ package_info.result.info = NoPackageInfo
              /\ package_info.result.err.error_type = "Unknown"

\* C17's case: the query about Other("NTLM"), a package named like a known
\* one, answered with the Error.
C17_Witness ==
    /\ package_info.done
    /\ package_type = Other("NTLM")
    /\ ~package_info.result.ok
    /\ package_info.result.err =
          ErrorNew("Unknown", "Queried info about unknown package: \"NTLM\"")

\* the descriptors a list holds
Listed(list) == {list[i] : i \in 1..Len(list)}

\* C18 (as claimed): enumerate_security_packages lists the three packages,
\* NTLM, Kerberos and Negotiate; every descriptor that
\* query_security_package_info returns is in the list.
C18_EnumerateListsAllThree ==
    packages.done =>
        /\ PackageInfo("ntlm::PACKAGE_INFO") \in Listed(packages.result.list)
        /\ PackageInfo("kerberos::PACKAGE_INFO") \in Listed(packages.result.list)
        /\ PackageInfo("kerberos::NEGO_PACKAGE_INFO") \in Listed(packages.result.list)
        /\ package_info.done /\ package_info.result.ok =>
              package_info.result.info \in Listed(packages.result.list)

\* C19: enumerate_security_packages succeeds and returns two descriptors,
\* the Kerberos one first and the Negotiate one second, whatever was asked
\* before.
C19_EnumerateKerberosThenNegotiate ==
    packages.done =>
        /\ packages.result.ok
        /\ Len(packages.result.list) = 2
        /\ packages.result.list[1] = PackageInfo("kerberos::PACKAGE_INFO")
        /\ packages.result.list[2] = PackageInfo("kerberos::NEGO_PACKAGE_INFO")

\* C19's case: the enumeration done after a query about Ntlm that succeeded.
C19_Witness ==
    /\ packages.done
    /\ package_info.done /\ package_type = Ntlm /\ package_info.result.ok
    /\ Len(packages.result.list) = 2
    /\ PackageInfo("ntlm::PACKAGE_INFO") \notin Listed(packages.result.list)

\* the methods execute asks for
RequiredCalls ==
    {"with_credentials_handle", "with_context_requirements",
     "with_target_data_representation", "with_output"}

Called == {calls[i] : i \in 1..Len(calls)}

IsWithInputStep ==
    /\ Len(calls') = Len(calls) + 1
    /\ calls'[Len(calls')] = "with_input"

\* C20: execute of an AcceptSecurityContext builder is reached only after
\* with_credentials_handle, with_context_requirements,
\* with_target_data_representation and with_output were each called, and is
\* available as soon as they were, in whatever order; a call of with_input
\* leaves the availability of execute as it was.
C20_ExecuteOnlyAfterRequiredCalls ==
    /\ [](accept_result # "NotExecuted" => RequiredCalls \subseteq Called)
    /\ [](calls # <<>> /\ accept_result = "NotExecuted" =>
             (FilledAcceptSecurityContext(builder) <=> RequiredCalls \subseteq Called))
    /\ [][IsWithInputStep =>
             (FilledAcceptSecurityContext(builder') <=> FilledAcceptSecurityContext(builder))]_vars

\* C20's case: execute reached after the four calls in the order opposite
\* to the documented one, with_input never called.
C20_Witness ==
    /\ accept_result = "Returned"
    /\ calls = <<"new", "with_output", "with_target_data_representation",
                 "with_context_requirements", "with_credentials_handle", "execute">>

\* the last of the calls that set or took the package reference: new,
\* transform, execute
LastInnerCall ==
    LET made == {i \in 1..Len(calls) : calls[i] \in {"new", "transform", "execute"}}
    IN  CHOOSE i \in made : \A j \in made : j <= i

Setters ==
    {"with_credentials_handle", "with_context_requirements",
     "with_target_data_representation", "with_output", "with_input"}

\* the argument field a setter stores into
OwnField(method) ==
    CASE method = "with_credentials_handle" -> "credentials_handle"
      [] method = "with_context_requirements" -> "context_requirements"
      [] method = "with_target_data_representation" -> "target_data_representation"
      [] method = "with_output" -> "output"
      [] method = "with_input" -> "input"

ArgumentFields == {OwnField(method) : method \in Setters}

\* the argument of the latest call of a setter, the value of new if none
LastArgument(method) ==
    LET made == {i \in 1..Len(calls) : calls[i] = method}
    IN  IF made = {} THEN new("Some(inner)")[OwnField(method)]
        ELSE args[CHOOSE i \in made : \A j \in made : j <= i]

IsStepOf(methods) ==
    /\ Len(calls') = Len(calls) + 1
    /\ calls'[Len(calls')] \in methods

\* C24: a with_* setter stores its argument in its own field and leaves
\* the package reference and the other argument fields as they were; so in
\* a builder reached by calls alone, no field assigned to directly, each
\* field holds the argument of the latest call of its setter (new's value
\* if there was none) in whatever order the setters were called, and a
\* builder with_input was never called on is executed with input None.
C24_SettersChangeOwnFieldOnly ==
    /\ [][IsStepOf(Setters) =>
             LET method == calls'[Len(calls')]
             IN  /\ builder'[OwnField(method)] = args'[Len(args')]
                 /\ builder'.inner = builder.inner
                 /\ \A field \in ArgumentFields \ {OwnField(method)} :
                       builder'[field] = builder[field]]_vars
    /\ [](calls # <<>> /\ ~Assigned =>
             \A method \in Setters : builder[OwnField(method)] = LastArgument(method))
    /\ [](accept_result # "NotExecuted" /\ Count("with_input") = 0 /\ ~Assigned =>
             builder.input = "None")

\* C24's case: the four required setters called in the order opposite to
\* the documented one, with_input never, and execute reached.
C24_Witness ==
    /\ accept_result = "Returned"
    /\ calls = <<"new", "with_output", "with_target_data_representation",
                 "with_context_requirements", "with_credentials_handle", "execute">>
    /\ args = <<"Some(inner)", 2, "Native", 16, "Some(handle 1)", "self">>
    /\ builder.input = "None"
    /\ builder.output = 2

\* C25: in a builder reached from new by with_* calls and transform, no
\* field assigned to directly, credentials_handle is Some exactly when the
\* marker is WithCredentialsHandle, which is exactly when
\* with_credentials_handle was called; such a builder has a handle when
\* execute hands it to the package.
C25_HandleIffMarker ==
    /\ calls # <<>> =>
          /\ ~Assigned =>
                (builder.credentials_handle # "None" <=>
                    builder.phantom_creds_use_set = "WithCredentialsHandle")
          /\ builder.phantom_creds_use_set = "WithCredentialsHandle" <=>
                Count("with_credentials_handle") > 0
    /\ accept_result # "NotExecuted" /\ ~Assigned =>
          builder.credentials_handle \in CredentialsHandles

\* C25's case: a builder that was transformed and executed, holding the
\* handle of the later of two calls.
C25_Witness ==
    /\ accept_result = "Returned"
    /\ ~Assigned
    /\ Count("transform") = 1
    /\ Count("with_credentials_handle") = 2
    /\ builder.credentials_handle = "Some(handle 2)"

\* C26: transform replaces the package reference and nothing else: the
\* five argument fields of the result are those of the original, and the
\* result is Filled.
C26_TransformKeepsArguments ==
    [][IsStepOf({"transform"}) =>
         /\ builder'.inner = args'[Len(args')]
         /\ \A field \in ArgumentFields : builder'[field] = builder[field]
         /\ FilledAcceptSecurityContext(builder')]_vars

\* C26's case: a builder with an input and none of new's arguments, just
\* transformed.
C26_Witness ==
    /\ calls # <<>>
    /\ calls[Len(calls)] = "transform"
    /\ builder.inner = "Some(inner 2)"
    /\ builder.input = "Some(input 2)"
    /\ builder.context_requirements = 16
    /\ builder.target_data_representation = "Native"

\* C23: get_kdc_env returns Some((url, kdc_type)) or panics, on the
\* variable not set or its value not a URL, and never returns None; so
\* new_with_network_client never panics with "not set properly".
C23_GetKdcEnvNeverNone ==
    /\ kdc_env.done =>
          /\ kdc_env.returned # "None"
          /\ kdc_env.panicked <=> kdc_env.returned # "Some"
          /\ kdc_env.panicked =>
                \/ ~kdc_url_env.set /\ kdc_env.message = ExpectMessage
                \/ kdc_url_env.set /\ ~Url_from_str(kdc_env.parsed).ok
    /\ config.done =>
          /\ config.message # "SSPI_KDC_URL environment variable is not set properly!"
          /\ config.panicked \/ config.returned = "Self"

\* C23's case: the value kdc:x, no URL for its port, and both calls
\* panicked in the unwrap.
C23_Witness ==
    /\ kdc_env.done /\ config.done
    /\ kdc_url_env = [set |-> TRUE, value |-> <<"k", "d", "c", ":", "x">>]
    /\ kdc_env.panicked /\ config.panicked
    /\ config.message = UnwrapMessage("InvalidPort")

\* C22: whatever the caller writes to the PackageInfo values it was
\* returned, the statics keep the contents they were constructed with, and
\* every call returns for a package the contents the first call returned
\* for it.
C22_DescriptorsImmutable ==
    /\ \A static \in PackageStatics : package_statics[static] = PackageInfo(static)
    /\ \A i, j \in 1..Len(held) :
          held[i].static = held[j].static => held[j].returned = held[i].returned
    /\ \A i \in 1..Len(held) : held[i].returned = PackageInfo(held[i].static)

\* C22's case: the Kerberos descriptor returned by a query, overwritten by
\* the caller, then returned again by an enumeration and by a second query,
\* each time with the first contents.
C22_Witness ==
    /\ Len(held) = 4
    /\ held[1].static = "kerberos::PACKAGE_INFO" /\ held[1].value = Overwritten
    /\ held[2].static = "kerberos::PACKAGE_INFO" /\ held[2].changed_before = 1
    /\ held[4].static = "kerberos::PACKAGE_INFO" /\ held[4].changed_before = 2
    /\ held[4].returned = held[1].returned

\* a SecurityPackageType from_str can give
Canonical(type) ==
    type.variant = "Other" => type.name \notin {NtlmPkgName, KerberosPkgName}

\* C28: from_str succeeds on every string s and to_string of its value is
\* s; its value is never Other(name) with the name of NTLM or Kerberos; and
\* from_str(to_string(p)) is p for Ntlm, for Kerberos and for every Other
\* that from_str can give.
C28_PackageTypeRoundTrip ==
    /\ type_out.of_str.done =>
          /\ type_out.of_str.parsed.ok
          /\ type_out.of_str.printed = type_in.str
          /\ Canonical(type_out.of_str.parsed.value)
          /\ type_out.of_str.parsed.value = Ntlm <=> type_in.str = NtlmPkgName
          /\ type_out.of_str.parsed.value = Kerberos <=> type_in.str = KerberosPkgName
    /\ type_out.of_type.done /\ Canonical(type_in.type) =>
          /\ type_out.of_type.parsed.ok
          /\ type_out.of_type.parsed.value = type_in.type

\* C28's case: the string Kerberos parsed to Kerberos and printed back, next
\* to Other("NTLM"), no value of from_str, which comes back as Ntlm.
C28_Witness ==
    /\ type_out.of_str.done /\ type_out.of_type.done
    /\ type_in = [str |-> "Kerberos", type |-> Other("NTLM")]
    /\ type_out.of_str.parsed.value = Kerberos
    /\ type_out.of_str.printed = "Kerberos"
    /\ type_out.of_type.parsed.value = Ntlm

\* C27: on every buffer list and buffer type, find_buffer and
\* find_buffer_mut fail together, both with InvalidToken, and where they
\* succeed they borrow the buffer at the same index.
C27_FindBufferMutAgrees ==
    found.called /\ found_mut.called =>
        /\ found_mut.arg = found.arg
        /\ found_mut.result.ok <=> found.result.ok
        /\ found.result.ok => found_mut.result.ref = found.result.ref
        /\ ~found.result.ok =>
              /\ found.result.err.error_type = "InvalidToken"
              /\ found_mut.result.err.error_type = "InvalidToken"

\* C27's case: both calls on a list with two buffers of the type after one
\* of another type, both borrowing the second buffer.
C27_Witness ==
    /\ found.called /\ found_mut.called
    /\ Len(buffers) = 3
    /\ Matches(buffers, buffer_type) = {2, 3}
    /\ found.result.ref = 2
    /\ found_mut.result.ref = 2

\* the other of the two enumerations
OtherEnum(enum) == IF enum = "ErrorKind" THEN "SecurityStatus" ELSE "ErrorKind"

\* C29 (as claimed): no number is the value of a SecurityStatus and of an
\* ErrorKind.
C29_NoSharedCode ==
    num_out.done => from_u32(OtherEnum(num_in.enum), num_out.value) = "None"

\* C29 (amended): no number but 0 is the value of a SecurityStatus and of an
\* ErrorKind; 0 is the value of SecurityStatus::Ok and of ErrorKind::Unknown,
\* and of no other variant.
C29_NoSharedCodeButZero ==
    num_out.done =>
        /\ num_out.value # Zero32 =>
              from_u32(OtherEnum(num_in.enum), num_out.value) = "None"
        /\ num_out.value = Zero32 =>
              /\ num_in.variant = (IF num_in.enum = "ErrorKind" THEN "Unknown" ELSE "Ok")
              /\ from_u32("SecurityStatus", num_out.value) = "Ok"
              /\ from_u32("ErrorKind", num_out.value) = "Unknown"

\* C29's case: ErrorKind::Unknown converted to 0, the number that read as a
\* SecurityStatus is Ok.
C29_Witness ==
    /\ num_out.done
    /\ num_in = [enum |-> "ErrorKind", variant |-> "Unknown"]
    /\ num_out.value = Zero32
    /\ from_u32("SecurityStatus", num_out.value) = "Ok"

\* C30: get_krb_status_from_code gives a label to every slice; to a slice
\* that is empty or longer than one byte, a known code after a zero byte
\* included, it gives "MISSING_ERROR"; the labels of the listed codes differ
\* from each other and from "MISSING_ERROR"; and a KRB-ERROR converts to the
\* kind InternalError whatever its label.
C30_StatusOfOneByteOnly ==
    /\ krb_status.done =>
          /\ krb_status.label # ""
          /\ Len(krb_code) # 1 => krb_status.label = "MISSING_ERROR"
          /\ Len(krb_code) = 1 /\ krb_code[1] \notin LabelledCodes =>
                krb_status.label = "MISSING_ERROR"
          /\ Len(krb_code) = 1 /\ krb_code[1] \in LabelledCodes =>
                /\ krb_status.label # "MISSING_ERROR"
                /\ \A code \in LabelledCodes \ {krb_code[1]} :
                      get_krb_status_from_code(<<code>>) # krb_status.label
    /\ KrbConverted => err_out.error.error_type = "InternalError"

\* C30's case: the slice of a zero byte and the code 0x18, which has a label
\* of its own, given "MISSING_ERROR".
C30_Witness ==
    /\ krb_status.done
    /\ krb_code = <<0, 24>>
    /\ krb_status.label = "MISSING_ERROR"

\* C10 (as claimed): a Kerberos crypto failure caused by an unsupported
\* encryption type / algorithm is reported as an Error of kind
\* AlgorithmMismatch.
C10_UnsupportedAlgorithmIsMismatch ==
    (err_out.done /\ err_in.type = "UnsupportedAlgorithm") =>
        err_out.error.error_type = "AlgorithmMismatch"

=============================================================================
